---- MODULE Spec2Model ----
(***************************************************************************)
(* Model of the vector-store synchronisation core of MHA-ISPOC-ROOT:       *)
(* the state ledger (scripts/utils/state.py), the upsert run               *)
(* (scripts/vector_store_upsert.py), the reconcile run and its planner     *)
(* (scripts/reconcile_vector_store.py) and the retrying executor.          *)
(*                                                                         *)
(* and the pipeline runner (run_pipeline.py).                              *)
(*                                                                         *)
(* The specifications share the variables:                                 *)
(*   Spec       the ledger file, the remote store, the combined index and  *)
(*              the documents, driven by upsert and reconcile runs;        *)
(*   PlanSpec   plan_reconciliation applied to drawn inputs;               *)
(*   RetrySpec  with_retries, one attempt per step;                        *)
(*   PipelineSpec  run_pipeline.py main: the lock and the steps;           *)
(*   LedgerSpec    the ledger file and the VectorState object;             *)
(*   LockSpec      PipelineLock shared by several pipeline processes;      *)
(*   WorkItemsSpec, IndexHashSpec, HashSpec, QuestionPlanSpec              *)
(*              build_work_items, build_index_work_item,                   *)
(*              compute_content_hash_from_data and collect_plan applied    *)
(*              to drawn arguments.                                        *)
(***************************************************************************)
EXTENDS Integers, Sequences, FiniteSets, TLC

VARIABLES
    index,          \* combined index file: the "MHA Documents" list
    docs,           \* JSON payload on disk of every document
    disk,           \* ledger file state/vector_state.json ("docs" mapping)
    mem,            \* VectorState of the running script (self._data["docs"])
    remote,         \* vector store files in listing order: [id, external_id]
    nextId,         \* id the remote store gives to the next uploaded file
    pc,             \* "idle", "upsert" (upload loop) or "reconcile" (delete loop)
    args,           \* arguments of the current or last run; again: a dry
                    \* upsert run that follows a dry upsert run, nothing
                    \* having changed between the two
    actions,        \* upsert main: result of determine_actions
    queue,          \* upsert main: create then update items not yet visited
    processed,      \* upsert main: processed
    state_dirty,    \* upsert main: state_dirty
    to_delete,      \* reconcile main: to_delete
    pending,        \* reconcile main: part of to_delete not yet visited
    failures,       \* failures list of the current or last run
    exit_code,      \* exit status of the last finished run
    deleted,        \* remote files deleted by the current or last run
    logged,         \* planning.item or reconcile.item events of that run
    trail,          \* finished non-dry runs since the last local change
    runs,           \* number of runs started without --dry-run
    edits,          \* number of local changes made
    faults,         \* number of remote calls that failed for good
    records,        \* plan_reconciliation: records
    allowed_files,  \* plan_reconciliation: allowed_files
    plan_state,     \* plan_reconciliation: state.docs
    plan,           \* plan_reconciliation: result, or unset before the call
    retries,        \* with_retries: retries
    base_delay,     \* with_retries: base_delay
    attempt,        \* with_retries: loop variable
    outcomes,       \* with_retries: outcome of each call of func so far
    events,         \* with_retries: log_event calls so far
    sleeps,         \* with_retries: time.sleep arguments so far
    rstatus,        \* with_retries: "running", "returned" or "raised"
    result,         \* with_retries: the value returned or the error raised
    pargs,          \* run_pipeline main: args and TEST_VECTOR_STORE_ID
    ppc,            \* run_pipeline main: "start", "locking", "steps" or "done"
    lock_file,      \* pipeline.lock: "absent", "mine", "other" or "stale"
    steps,          \* run_pipeline main: steps
    step_no,        \* run_pipeline main: position of the loop in steps
    step_attempt,   \* execute_step: attempt
    results,        \* run_pipeline main: results
    overall_status, \* run_pipeline main: overall_status
    launched,       \* subprocess.run calls so far: [name, command, attempt, ok]
    step_sleeps,    \* execute_step: time.sleep arguments so far
    pipeline_exit,  \* return value of main, or None while it runs
    lpath,          \* the file at the ledger path, as any reader finds it
    ltmp,           \* the temporary file of the _atomic_write_json under way
    ltext,          \* _atomic_write_json: serialized
    lfound,         \* the file at the ledger path when that write began
    ldocs,          \* VectorState: self._data["docs"], or None without object
    lpc,            \* "closed", "ensure", "construct", "ready" or "save"
    llast,          \* the last call made on the VectorState, with the docs before it
    lops,           \* number of upsert, set_metadata and remove calls made
    fn_args,        \* arguments drawn for the function under check
    fn_result,      \* its result, or unset before the call
    lk_file,        \* the file at the lock path: exists, owner, old
    lk_pc,          \* PipelineLock of each pipeline process: where it is
    lk_acquired,    \* PipelineLock of each pipeline process: _acquired
    lk_stale_seconds  \* --stale-lock-seconds of the pipeline processes

syncVars == <<index, docs, disk, mem, remote, nextId, pc, args, actions, queue,
              processed, state_dirty, to_delete, pending, failures, exit_code,
              deleted, logged, trail, runs, edits, faults>>
planVars == <<records, allowed_files, plan_state, plan>>
retryVars == <<retries, base_delay, attempt, outcomes, events, sleeps, rstatus,
               result>>
pipeVars == <<pargs, ppc, lock_file, steps, step_no, step_attempt, results,
              overall_status, launched, step_sleeps, pipeline_exit>>
ledgerVars == <<lpath, ltmp, ltext, lfound, ldocs, lpc, llast, lops>>
fnVars == <<fn_args, fn_result>>
lockVars == <<lk_file, lk_pc, lk_acquired, lk_stale_seconds>>
vars == <<syncVars, planVars, retryVars, pipeVars, ledgerVars, fnVars, lockVars>>

----------------------------------------------------------------------------
(* Bounds of the model *)

MaxRuns == 2          \* runs that are no dry runs, in one behaviour
MaxEdits == 1         \* local changes in one behaviour
MaxFaults == 1        \* remote calls that fail after their retries, in one behaviour
MaxUploads == 4       \* files the remote store accepts in one behaviour
MaxInitRemote == 2    \* files in the remote store before the first run
MaxRecords == 3       \* length of the records list given to plan_reconciliation
MaxRetries == 3       \* largest --max-retries drawn
MaxDelay == 2         \* largest --retry-base-delay drawn
MaxStepRetries == 1   \* largest --max-retries drawn for run_pipeline

----------------------------------------------------------------------------
(* Values *)

\* Python None; also stands for every falsy external id ("" included).
None == "None"

\* External ids of documents (the File values the combined index may list).
Docs == {"A.json", "B.json"}

\* DEFAULT_COMBINED_INDEX.name, the external id of the combined index item.
INDEX_NAME == "MHA_Documents_Metadata_Index.json"

ExtIds == Docs \cup {INDEX_NAME}

\* Lexicographic rank of an external id (str comparison of Python).
KeyRank(e) == CASE e = "A.json" -> 1 [] e = "B.json" -> 2 [] OTHER -> 3

\* A falsy remote file id (None or ""); real file ids are positive.
NoFile == 0

\* _DEFAULT_VOLATILE_FIELDS
DEFAULT_VOLATILE_FIELDS == {"extracted_date"}

Range(s) == {s[i] : i \in 1..Len(s)}

RECURSIVE SeqOfSet(_)
\* The elements of a set of external ids in ascending key order.
SeqOfSet(S) ==
    IF S = {} THEN <<>>
    ELSE LET m == CHOOSE x \in S : \A y \in S : KeyRank(x) <= KeyRank(y)
         IN <<m>> \o SeqOfSet(S \ {m})

----------------------------------------------------------------------------
(* scripts/utils/state.py *)

\* _strip_volatile_fields on a payload whose values are scalars.
strip_volatile_fields(data, volatile_fields) ==
    [k \in (DOMAIN data) \ volatile_fields |-> data[k]]

\* canonicalize_json: volatile keys removed, keys sorted. A function carries
\* no key order, so the cleaned mapping is its own canonical form.
canonicalize_json(data) == strip_volatile_fields(data, DEFAULT_VOLATILE_FIELDS)

\* compute_content_hash_from_data: SHA-256 of the canonical string, taken as
\* injective; the digest is named by the string it was computed from.
compute_content_hash_from_data(data) == <<"sha256", canonicalize_json(data)>>

\* VectorState.get as an Optional: the empty set is None.
StateGet(ledger, external_id) ==
    IF external_id \in DOMAIN ledger THEN {ledger[external_id]} ELSE {}

\* dict item assignment self.docs[external_id] = entry.
Put(ledger, external_id, entry) ==
    [e \in (DOMAIN ledger) \cup {external_id} |->
        IF e = external_id THEN entry ELSE ledger[e]]

\* entry.update(metadata)
Update(entry, metadata) ==
    [k \in (DOMAIN entry) \cup (DOMAIN metadata) |->
        IF k \in DOMAIN metadata THEN metadata[k] ELSE entry[k]]

\* StateUpsert with the new fields merged into the stored entry.
StateUpsertMerging(ledger, external_id, file_id, content_hash, last_synced_at, metadata) ==
    Put(ledger, external_id,
        Update(IF external_id \in DOMAIN ledger THEN ledger[external_id] ELSE <<>>,
               Update([fileId |-> file_id, contentHash |-> content_hash,
                       lastSyncedAt |-> last_synced_at], metadata)))

\* VectorState.upsert: the entry is rebuilt from the arguments alone.
StateUpsert(ledger, external_id, file_id, content_hash, last_synced_at, metadata) ==
    Put(ledger, external_id,
        Update([fileId |-> file_id, contentHash |-> content_hash,
                lastSyncedAt |-> last_synced_at], metadata))

\* StateSetMetadata with the stored entry dropped.
StateSetMetadataReplacing(ledger, external_id, metadata) ==
    Put(ledger, external_id, metadata)

\* VectorState.set_metadata: merge into the stored entry, or into {}.
StateSetMetadata(ledger, external_id, metadata) ==
    Put(ledger, external_id,
        Update(IF external_id \in DOMAIN ledger THEN ledger[external_id] ELSE <<>>,
               metadata))

\* VectorState.remove
StateRemove(ledger, external_id) ==
    [e \in (DOMAIN ledger) \ {external_id} |-> ledger[e]]

\* The empty ledger {"docs": {}} written by ensure_state_file.
EmptyLedger == <<>>

\* entry.get("fileId"), with every falsy value (None, "") as NoFile.
FileIdOf(entry) == IF "fileId" \in DOMAIN entry THEN entry["fileId"] ELSE NoFile

\* entry.get("contentHash") == content_hash (a computed hash is never None).
HashIs(entry, content_hash) ==
    "contentHash" \in DOMAIN entry /\ entry["contentHash"] = content_hash

\* Truth value of an Optional[Dict]: None and {} are falsy.
Truthy(optional_entry) ==
    optional_entry # {} /\ \A e \in optional_entry : DOMAIN e # {}

----------------------------------------------------------------------------
(* scripts/vector_store_upsert.py: planning *)

\* record.get("File"): None when the record has no such key.
RecordFile(record) == IF "File" \in DOMAIN record THEN record["File"] ELSE None

\* The place of the sort key (d or {}).get("File") or "" in str order: the
\* empty string, of a record without File, comes first.
FileSortRank(d) == IF RecordFile(d) = None THEN 0 ELSE KeyRank(RecordFile(d))

RECURSIVE SortedByFile(_)
\* sorted(documents, key=lambda d: (d or {}).get("File") or ""): a stable
\* sort, records of equal key keep the order they came in.
SortedByFile(documents) ==
    IF documents = <<>> THEN <<>>
    ELSE LET rest == SortedByFile(Tail(documents))
             d == Head(documents)
             before == SelectSeq(rest, LAMBDA x : FileSortRank(x) < FileSortRank(d))
             after == SelectSeq(rest, LAMBDA x : FileSortRank(x) >= FileSortRank(d))
         IN before \o <<d>> \o after

\* load_combined_index_payload: the whole JSON object of the index file.
load_combined_index_payload(idx) == ("MHA Documents" :> idx)

\* normalize_combined_index_payload
normalize_combined_index_payload(payload) ==
    [payload EXCEPT !["MHA Documents"] = SortedByFile(payload["MHA Documents"])]

\* DocumentWorkItem.title for a document: json_payload.get("title") is set.
TitleOf(json_payload) == json_payload["title"]

\* resolve_source_path: the directory of the document type, then the file name.
resolve_source_path(document_type, file_name) ==
    <<(IF document_type = "Policy" THEN "VECTOR_JSON" ELSE "VECTOR_GUIDES_JSON"), file_name>>

\* record.get("Document Type", "Policy")
DocumentTypeOf(record) ==
    IF "Document Type" \in DOMAIN record THEN record["Document Type"] ELSE "Policy"

\* build_work_items when no record raises: one item per index record, in
\* index order.
build_work_items(documents, state, payloads) ==
    [i \in 1..Len(documents) |->
        [external_id |-> documents[i].File,
         source_path |-> resolve_source_path(DocumentTypeOf(documents[i]),
                                             documents[i].File),
         document_type |-> DocumentTypeOf(documents[i]),
         title |-> TitleOf(payloads[documents[i].File]),
         content_hash |-> compute_content_hash_from_data(payloads[documents[i].File]),
         state_record |-> StateGet(state, documents[i].File)]]

\* The exception the loop body of build_work_items raises on a record, or
\* None: ValueError on a falsy File, FileNotFoundError when the source path
\* does not exist.
RecordError(record, existing) ==
    IF RecordFile(record) = None THEN "ValueError"
    ELSE IF resolve_source_path(DocumentTypeOf(record), RecordFile(record)) \notin existing
         THEN "FileNotFoundError"
         ELSE None

\* BuildWorkItemsCall with the records that cannot be built passed over.
BuildWorkItemsSkippingBadRecords(documents, state, payloads, existing) ==
    [raised |-> None,
     items |-> build_work_items(
                   SelectSeq(documents, LAMBDA r : RecordError(r, existing) = None),
                   state, payloads)]

\* A call of build_work_items: the exception of the first record that
\* raises leaves the function with no item returned; else the items.
BuildWorkItemsCall(documents, state, payloads, existing) ==
    LET bad == {i \in 1..Len(documents) : RecordError(documents[i], existing) # None}
    IN IF bad # {}
       THEN [raised |-> RecordError(documents[CHOOSE i \in bad : \A j \in bad : i <= j],
                                    existing),
             items |-> <<>>]
       ELSE [raised |-> None, items |-> build_work_items(documents, state, payloads)]

\* build_index_work_item: the hash is taken of the normalized payload.
build_index_work_item(idx, state) ==
    [external_id |-> INDEX_NAME,
     source_path |-> <<INDEX_NAME>>,
     document_type |-> "Index",
     title |-> "MHA Documents Combined Index",
     content_hash |-> compute_content_hash_from_data(
                          normalize_combined_index_payload(
                              load_combined_index_payload(idx))),
     state_record |-> StateGet(state, INDEX_NAME)]

\* IsCreate with the test of the ledger entry turned round.
IsCreateOnRecord(item) == Truthy(item.state_record)

\* The three branches of determine_actions for one item.
IsCreate(item) == ~Truthy(item.state_record)

\* IsUpdate with the comparison turned round (== for !=).
IsUpdateOnEqualHash(item) ==
    /\ Truthy(item.state_record)
    /\ \E e \in item.state_record : HashIs(e, item.content_hash)

IsUpdate(item) ==
    /\ Truthy(item.state_record)
    /\ \E e \in item.state_record : ~HashIs(e, item.content_hash)
IsSkip(item) == ~IsCreate(item) /\ ~IsUpdate(item)

\* determine_actions
determine_actions(items) ==
    [create |-> SelectSeq(items, IsCreate),
     update |-> SelectSeq(items, IsUpdate),
     skip |-> SelectSeq(items, IsSkip)]

----------------------------------------------------------------------------
(* The remote vector store *)

\* The listed file with this id, if the store holds it.
RemoteHas(file_id) == \E i \in 1..Len(remote) : remote[i].id = file_id

\* The store after a successful DELETE of file_id.
RemoteWithout(file_id) == SelectSeq(remote, LAMBDA f : f.id # file_id)

\* The listed records with this id (at most one).
RemoteRecords(file_id) == {f \in Range(remote) : f.id = file_id}

\* VectorStoreClient.upload: the file is attached without metadata, so the
\* listing reports no external_id for it.
RemoteUploaded(file_id) == Append(remote, [id |-> file_id, external_id |-> None])

----------------------------------------------------------------------------
(* Run history *)

\* The last two finished runs since the last local change.
Trailed(tag) == IF Len(trail) < 2 THEN Append(trail, tag) ELSE <<trail[2], tag>>

\* The time _utc_timestamp reads; the model keeps no clock.
Now == "now"

planUnchanged == UNCHANGED planVars
retryUnchanged == UNCHANGED retryVars
pipeUnchanged == UNCHANGED pipeVars
ledgerUnchanged == UNCHANGED ledgerVars
fnUnchanged == UNCHANGED fnVars
lockUnchanged == UNCHANGED lockVars
localUnchanged == UNCHANGED <<index, docs, edits>>

\* A with_retries call of a run raises: one more fault.
Faulted(n) == faults + n <= MaxFaults /\ faults' = faults + n

----------------------------------------------------------------------------
(* scripts/vector_store_upsert.py: main *)

\* The items main plans: the combined index item first, then the documents.
UpsertItems(state) ==
    <<build_index_work_item(index, state)>> \o build_work_items(index, state, docs)

\* The create items and then the update items, each with its action name.
UpsertQueue(acts) ==
    [i \in 1..Len(acts.create) |-> [action_name |-> "create", item |-> acts.create[i]]]
    \o [i \in 1..Len(acts.update) |-> [action_name |-> "update", item |-> acts.update[i]]]

\* The vector store id (argument or environment) and the API key
\* (environment) a run finds: both set, or one of them missing. A dry upsert
\* run returns before it reads them; a run that finds one missing ends
\* before it reads --limit or --include-unknown, drawn at their defaults then.
Configurations(script, dry_run) ==
    IF script = "upsert" /\ dry_run
    THEN {<<"vs_test", "sk-test">>}
    ELSE {<<"vs_test", "sk-test">>, <<None, "sk-test">>, <<"vs_test", None>>}

\* Configured with the API key not looked at.
ConfiguredByIdAlone(vector_store_id, api_key) == vector_store_id # None

\* The two configuration tests of main, "if not vector_store_id: raise" and
\* "if not api_key: raise", are both passed.
Configured(vector_store_id, api_key) == vector_store_id # None /\ api_key # None

\* StopsAfterPlanning with --dry-run not looked at.
StopsAfterPlanningNever(dry_run) == FALSE

\* "if args.dry_run: ... return 0": the run ends once the plan is logged.
StopsAfterPlanning(dry_run) == dry_run

\* The planning.item events of the dry-run branch: one for every item of
\* every bucket, in the order create, update, skip.
PlanningItemEvents(acts) ==
    LET Of(action) == [i \in 1..Len(acts[action]) |->
                          [event |-> "planning.item", action |-> action,
                           externalId |-> acts[action][i].external_id,
                           documentType |-> acts[action][i].document_type,
                           contentHash |-> acts[action][i].content_hash]]
    IN Of("create") \o Of("update") \o Of("skip")

\* main up to the upload loop: load the ledger, plan, stop here on --dry-run
\* (before the configuration is read), or when the configuration is missing.
UpsertStart(dry_run, limit, vector_store_id, api_key) ==
    /\ pc = "idle"
    /\ dry_run \/ runs < MaxRuns
    /\ runs' = IF dry_run THEN runs ELSE runs + 1
    /\ args' = [script |-> "upsert", dry_run |-> dry_run, limit |-> limit,
                include_unknown |-> FALSE,
                again |-> dry_run /\ args.script = "upsert" /\ args.dry_run,
                vector_store_id |-> vector_store_id, api_key |-> api_key]
    /\ mem' = disk
    /\ actions' = determine_actions(UpsertItems(disk))
    /\ failures' = <<>>
    /\ deleted' = {}
    /\ processed' = 0
    /\ state_dirty' = FALSE
    /\ IF StopsAfterPlanning(dry_run)
       THEN /\ pc' = "idle"
            /\ queue' = <<>>
            /\ exit_code' = 0
            /\ logged' = PlanningItemEvents(actions')
            /\ UNCHANGED trail
       ELSE IF ~Configured(vector_store_id, api_key)
            THEN /\ pc' = "idle"
                 /\ queue' = <<>>
                 /\ exit_code' = 1
                 /\ logged' = <<>>
                 /\ trail' = Trailed([script |-> "upsert", clean |-> FALSE])
            ELSE /\ pc' = "upsert"
                 /\ queue' = UpsertQueue(actions')
                 /\ logged' = <<>>
                 /\ UNCHANGED <<exit_code, trail>>
    /\ to_delete' = <<>>
    /\ pending' = <<>>
    /\ UNCHANGED <<disk, remote, nextId, faults>>
    /\ localUnchanged /\ planUnchanged /\ retryUnchanged /\ pipeUnchanged
    /\ ledgerUnchanged /\ fnUnchanged /\ lockUnchanged

\* RestAfter with the failure ending the loop.
RestAfterStopsOnFailure(rest, failed) == IF failed THEN <<>> ELSE Tail(rest)

\* What a loop over planned items has left after one item: the exception of
\* a failed item is caught inside the loop body, the loop goes on either way.
RestAfter(rest, failed) == Tail(rest)

\* SavedByUpsert with the save skipped when an item failed.
SavedByUpsertUnlessFailed(ledger_file, state, dirty, failed) ==
    IF dirty /\ failed = <<>> THEN state ELSE ledger_file

\* The ledger file after "if state_dirty: state.save()".
SavedByUpsert(ledger_file, state, dirty, failed) ==
    IF dirty THEN state ELSE ledger_file

\* The limit test made before each item and after each bucket.
LimitReached == args.limit > 0 /\ processed >= args.limit

\* UploadAttempted with the upload made whatever became of the delete.
UploadAttemptedAlways(must_delete, delete_ok) == TRUE

\* The try block of the loop body reaches the upload: there was no old file
\* to delete, or the with_retries call of the delete returned.
UploadAttempted(must_delete, delete_ok) == must_delete => delete_ok

\* One pass of the upload loop body. delete_ok and upload_ok are the results
\* of the two with_retries calls: TRUE when it returned, FALSE when it raised.
UpsertItem(delete_ok, upload_ok) ==
    /\ pc = "upsert"
    /\ queue # <<>>
    /\ ~LimitReached
    /\ LET action_name == Head(queue).action_name
           item == Head(queue).item
           old_file_id == IF Truthy(item.state_record)
                          THEN FileIdOf(CHOOSE e \in item.state_record : TRUE)
                          ELSE NoFile
           must_delete == action_name = "update" /\ old_file_id # NoFile
           did_delete == must_delete /\ delete_ok
           did_upload == UploadAttempted(must_delete, delete_ok) /\ upload_ok
           after_delete == IF did_delete THEN RemoteWithout(old_file_id) ELSE remote
       IN /\ must_delete \/ delete_ok
          /\ (must_delete /\ ~delete_ok) => upload_ok
          /\ did_delete => RemoteHas(old_file_id)
          /\ did_upload => nextId <= MaxInitRemote + MaxUploads
          /\ Faulted(IF did_upload THEN 0 ELSE 1)
          /\ deleted' = IF did_delete
                        THEN deleted \cup RemoteRecords(old_file_id)
                        ELSE deleted
          /\ IF did_upload
             THEN /\ remote' = Append(after_delete,
                                      [id |-> nextId, external_id |-> None])
                  /\ nextId' = nextId + 1
                  /\ mem' = StateUpsert(mem, item.external_id, nextId,
                                        item.content_hash, Now,
                                        [documentType |-> item.document_type,
                                         sourcePath |-> item.source_path,
                                         title |-> item.title])
                  /\ state_dirty' = TRUE
                  /\ processed' = processed + 1
                  /\ UNCHANGED failures
             ELSE /\ remote' = after_delete
                  /\ failures' = Append(failures, item.external_id)
                  /\ UNCHANGED <<nextId, mem, state_dirty, processed>>
          /\ queue' = RestAfter(queue, ~did_upload)
    /\ UNCHANGED <<disk, pc, args, actions, to_delete, pending, exit_code,
                   trail, runs>>
    /\ UNCHANGED logged
    /\ localUnchanged /\ planUnchanged /\ retryUnchanged /\ pipeUnchanged
    /\ ledgerUnchanged /\ fnUnchanged /\ lockUnchanged

\* main after the upload loop: save when dirty, report the failures.
UpsertFinish ==
    /\ pc = "upsert"
    /\ queue = <<>> \/ LimitReached
    /\ pc' = "idle"
    /\ disk' = SavedByUpsert(disk, mem, state_dirty, failures)
    /\ exit_code' = IF failures # <<>> THEN 1 ELSE 0
    /\ trail' = Trailed([script |-> "upsert",
                         clean |-> failures = <<>> /\ queue = <<>>])
    /\ UNCHANGED <<mem, remote, nextId, args, actions, queue, processed,
                   state_dirty, to_delete, pending, failures, deleted, runs, faults>>
    /\ UNCHANGED logged
    /\ localUnchanged /\ planUnchanged /\ retryUnchanged /\ pipeUnchanged
    /\ ledgerUnchanged /\ fnUnchanged /\ lockUnchanged

----------------------------------------------------------------------------
(* scripts/reconcile_vector_store.py: main *)

\* allowed_external_ids: the truthy File values of the combined index.
AllowedExternalIds(idx) == {idx[i].File : i \in 1..Len(idx)} \ {None}

\* stale_external_ids, in the key order of the loaded ledger file.
StaleExternalIds(state, allowed) ==
    SelectSeq(SeqOfSet(DOMAIN state), LAMBDA eid : eid \notin allowed)

\* The deletions taken from the ledger: stale entries that carry a fileId.
StateDeletions(state, allowed) ==
    LET stale == StaleExternalIds(state, allowed)
        with_file == SelectSeq(stale, LAMBDA eid : FileIdOf(state[eid]) # NoFile)
    IN [i \in 1..Len(with_file) |->
           [id |-> FileIdOf(state[with_file[i]]), external_id |-> with_file[i],
            source |-> "state"]]

\* unknowns: listed files without external_id, and listed files whose
\* external_id is neither allowed nor in the ledger; both only on opt-in.
UnknownDeletions(files, state, allowed, include_unknown) ==
    LET picked == SelectSeq(files, LAMBDA f :
                      /\ include_unknown
                      /\ \/ f.external_id = None
                         \/ /\ f.external_id \notin allowed
                            /\ f.external_id \notin DOMAIN state)
    IN [i \in 1..Len(picked) |->
           [id |-> picked[i].id, external_id |-> picked[i].external_id,
            source |-> "unknown"]]

\* ReconcileToDelete with the opt-in forgotten: the unknowns always join.
ReconcileToDeleteUnknownsToo(files, state, allowed, include_unknown) ==
    StateDeletions(state, allowed) \o UnknownDeletions(files, state, allowed, TRUE)

\* to_delete as main builds it.
ReconcileToDelete(files, state, allowed, include_unknown) ==
    StateDeletions(state, allowed)
    \o (IF include_unknown
        THEN UnknownDeletions(files, state, allowed, include_unknown)
        ELSE <<>>)

\* The reconcile.item events: main logs "for f in to_delete[:50]".
RECONCILE_ITEM_LOG_CAP == 50

ReconcileItemEvents(planned) ==
    [i \in 1..(IF Len(planned) < RECONCILE_ITEM_LOG_CAP
               THEN Len(planned) ELSE RECONCILE_ITEM_LOG_CAP) |->
        [event |-> "reconcile.item", externalId |-> planned[i].external_id,
         fileId |-> planned[i].id, source |-> planned[i].source]]

\* main up to the delete loop: load the ledger, read the configuration (the
\* run ends here when it is missing), list the store, plan, stop here on
\* --dry-run. list_ok = FALSE: the listing request raised.
ReconcileStart(dry_run, include_unknown, list_ok, vector_store_id, api_key) ==
    /\ pc = "idle"
    /\ dry_run \/ runs < MaxRuns
    /\ runs' = IF dry_run THEN runs ELSE runs + 1
    /\ args' = [script |-> "reconcile", dry_run |-> dry_run, limit |-> 0,
                include_unknown |-> include_unknown, again |-> FALSE,
                vector_store_id |-> vector_store_id, api_key |-> api_key]
    /\ mem' = disk
    /\ failures' = <<>>
    /\ deleted' = {}
    /\ IF ~Configured(vector_store_id, api_key)
       THEN /\ list_ok
            /\ Faulted(0)
            /\ pc' = "idle"
            /\ exit_code' = 1
            /\ to_delete' = <<>>
            /\ pending' = <<>>
            /\ logged' = <<>>
            /\ trail' = Trailed([script |-> "reconcile", clean |-> FALSE])
       ELSE /\ Faulted(IF list_ok THEN 0 ELSE 1)
            /\ IF ~list_ok
               THEN /\ pc' = "idle"
                    /\ exit_code' = 1
                    /\ to_delete' = <<>>
                    /\ pending' = <<>>
                    /\ logged' = <<>>
                    /\ trail' = Trailed([script |-> "reconcile", clean |-> FALSE])
               ELSE /\ to_delete' = ReconcileToDelete(remote, disk,
                                        AllowedExternalIds(index), include_unknown)
                    /\ logged' = ReconcileItemEvents(to_delete')
                    /\ IF StopsAfterPlanning(dry_run)
                       THEN /\ pc' = "idle"
                            /\ pending' = <<>>
                            /\ exit_code' = 0
                       ELSE /\ pc' = "reconcile"
                            /\ pending' = to_delete'
                            /\ UNCHANGED exit_code
                    /\ UNCHANGED trail
    /\ actions' = [create |-> <<>>, update |-> <<>>, skip |-> <<>>]
    /\ queue' = <<>>
    /\ processed' = 0
    /\ state_dirty' = FALSE
    /\ UNCHANGED <<disk, remote, nextId>>
    /\ localUnchanged /\ planUnchanged /\ retryUnchanged /\ pipeUnchanged
    /\ ledgerUnchanged /\ fnUnchanged /\ lockUnchanged

\* LedgerAfterDelete with the entry removed whatever became of the delete.
LedgerAfterDeleteAttempt(state, f, delete_ok) ==
    IF f.external_id # None /\ Truthy(StateGet(state, f.external_id))
    THEN StateRemove(state, f.external_id)
    ELSE state

\* The ledger in memory after the try block of the delete loop: "if eid and
\* state.get(eid): state.remove(eid)" is reached only when with_retries
\* returned.
LedgerAfterDelete(state, f, delete_ok) ==
    IF delete_ok /\ f.external_id # None /\ Truthy(StateGet(state, f.external_id))
    THEN StateRemove(state, f.external_id)
    ELSE state

\* One pass of the delete loop body. delete_ok is the result of with_retries.
ReconcileItem(delete_ok) ==
    /\ pc = "reconcile"
    /\ pending # <<>>
    /\ Faulted(IF delete_ok THEN 0 ELSE 1)
    /\ LET f == Head(pending)
       IN /\ delete_ok => RemoteHas(f.id)
          /\ IF delete_ok
             THEN /\ remote' = RemoteWithout(f.id)
                  /\ deleted' = deleted \cup RemoteRecords(f.id)
                  /\ UNCHANGED failures
             ELSE /\ failures' = Append(failures, [externalId |-> f.external_id,
                                                    fileId |-> f.id])
                  /\ UNCHANGED <<remote, deleted>>
          /\ mem' = LedgerAfterDelete(mem, f, delete_ok)
    /\ pending' = RestAfter(pending, ~delete_ok)
    /\ UNCHANGED <<disk, nextId, pc, args, actions, queue, processed,
                   state_dirty, to_delete, exit_code, trail, runs>>
    /\ UNCHANGED logged
    /\ localUnchanged /\ planUnchanged /\ retryUnchanged /\ pipeUnchanged
    /\ ledgerUnchanged /\ fnUnchanged /\ lockUnchanged

\* main after the delete loop: the ledger is saved on both exits.
ReconcileFinish ==
    /\ pc = "reconcile"
    /\ pending = <<>>
    /\ pc' = "idle"
    /\ disk' = mem
    /\ exit_code' = IF failures # <<>> THEN 1 ELSE 0
    /\ trail' = Trailed([script |-> "reconcile", clean |-> failures = <<>>])
    /\ UNCHANGED <<mem, remote, nextId, args, actions, queue, processed,
                   state_dirty, to_delete, pending, failures, deleted, runs, faults>>
    /\ UNCHANGED logged
    /\ localUnchanged /\ planUnchanged /\ retryUnchanged /\ pipeUnchanged
    /\ ledgerUnchanged /\ fnUnchanged /\ lockUnchanged

----------------------------------------------------------------------------
(* Local changes between runs *)

\* The combined index files drawn: every list of distinct documents.
IndexChoices ==
    {<<>>} \cup {<<[File |-> d]>> : d \in Docs}
    \cup {<<[File |-> d], [File |-> e]>> : <<d, e>> \in {p \in Docs \X Docs : p[1] # p[2]}}

\* The document payloads drawn: two versions of the content.
Payloads == [title : {"t1", "t2"}, extracted_date : {"2024-05-01"}]

\* A local change is made between runs: no script process is alive, and the
\* variables of the last run are gone.
NoRunLeft ==
    /\ mem' = EmptyLedger
    /\ args' = [script |-> "none", dry_run |-> FALSE, limit |-> 0,
                include_unknown |-> FALSE, again |-> FALSE,
                vector_store_id |-> None, api_key |-> None]
    /\ actions' = [create |-> <<>>, update |-> <<>>, skip |-> <<>>]
    /\ queue' = <<>>
    /\ processed' = 0
    /\ state_dirty' = FALSE
    /\ to_delete' = <<>>
    /\ pending' = <<>>
    /\ failures' = <<>>
    /\ exit_code' = 0
    /\ deleted' = {}
    /\ logged' = <<>>
    /\ UNCHANGED <<remote, nextId, pc, runs, faults>>

\* combine_indexes.py rewrites the combined index.
EditIndex(idx) ==
    /\ pc = "idle"
    /\ edits < MaxEdits
    /\ idx # index
    /\ index' = idx
    /\ edits' = edits + 1
    /\ trail' = <<>>
    /\ UNCHANGED <<docs, disk>>
    /\ NoRunLeft /\ planUnchanged /\ retryUnchanged /\ pipeUnchanged
    /\ ledgerUnchanged /\ fnUnchanged /\ lockUnchanged

\* A conversion step rewrites the JSON of one document.
EditDoc(d, payload) ==
    /\ pc = "idle"
    /\ edits < MaxEdits
    /\ payload # docs[d]
    /\ docs' = [docs EXCEPT ![d] = payload]
    /\ edits' = edits + 1
    /\ trail' = <<>>
    /\ UNCHANGED <<index, disk>>
    /\ NoRunLeft /\ planUnchanged /\ retryUnchanged /\ pipeUnchanged
    /\ ledgerUnchanged /\ fnUnchanged /\ lockUnchanged

\* generate_ai_questions.py main, for one regenerated document: the
\* enrichment hash is merged into the ledger entry and the ledger is saved.
GenerateQuestions(d) ==
    /\ pc = "idle"
    /\ edits < MaxEdits
    /\ disk' = StateSetMetadata(disk, d,
                   [policyQuestionsHash |-> compute_content_hash_from_data(docs[d]),
                    policyQuestionsUpdatedAt |-> Now])
    /\ disk' # disk
    /\ edits' = edits + 1
    /\ trail' = <<>>
    /\ UNCHANGED <<index, docs>>
    /\ NoRunLeft /\ planUnchanged /\ retryUnchanged /\ pipeUnchanged
    /\ ledgerUnchanged /\ fnUnchanged /\ lockUnchanged

----------------------------------------------------------------------------
(* scripts/reconcile_vector_store.py: plan_reconciliation *)

\* DuplicateDeletions with the kept copy mistaken: the last listed record of
\* an external id is kept and the earlier ones are scheduled.
DuplicateDeletionsKeepLast(recs) ==
    LET dup == SelectSeq([i \in 1..Len(recs) |-> [pos |-> i, rec |-> recs[i]]],
                   LAMBDA p : /\ p.rec.external_id # None
                              /\ \E j \in (p.pos + 1)..Len(recs) :
                                     recs[j].external_id = p.rec.external_id)
    IN [i \in 1..Len(dup) |->
           [file_id |-> dup[i].rec.file_id, external_id |-> dup[i].rec.external_id,
            reason |-> "duplicate_external_id", remove_state |-> FALSE]]

\* The first loop: a record whose external_id was seen on an earlier record
\* is scheduled; records without external_id are passed over.
DuplicateDeletions(recs) ==
    LET dup == SelectSeq([i \in 1..Len(recs) |-> [pos |-> i, rec |-> recs[i]]],
                   LAMBDA p : /\ p.rec.external_id # None
                              /\ \E j \in 1..(p.pos - 1) :
                                     recs[j].external_id = p.rec.external_id)
    IN [i \in 1..Len(dup) |->
           [file_id |-> dup[i].rec.file_id, external_id |-> dup[i].rec.external_id,
            reason |-> "duplicate_external_id", remove_state |-> FALSE]]

\* OrphanDeletions with the allow-list test left out.
OrphanDeletionsUnfiltered(allowed, state) ==
    LET orphans == SeqOfSet(DOMAIN state)
    IN [i \in 1..Len(orphans) |->
           [file_id |-> FileIdOf(state[orphans[i]]), external_id |-> orphans[i],
            reason |-> "not_in_combined_index", remove_state |-> TRUE]]

\* The second loop: every ledger key that is not allowed is scheduled, with
\* entry.get("fileId", "") as its file id.
OrphanDeletions(allowed, state) ==
    LET orphans == SelectSeq(SeqOfSet(DOMAIN state), LAMBDA eid : eid \notin allowed)
    IN [i \in 1..Len(orphans) |->
           [file_id |-> FileIdOf(state[orphans[i]]), external_id |-> orphans[i],
            reason |-> "not_in_combined_index", remove_state |-> TRUE]]

\* plan_reconciliation
plan_reconciliation(recs, allowed, state) ==
    [called |-> TRUE,
     deletions |-> DuplicateDeletions(recs) \o OrphanDeletions(allowed, state),
     state_only_removals |-> <<>>]

\* Ledger entries drawn for one external id: written by an upload, written
\* by question generation alone, or both.
DrawnEntries(eid) ==
    LET uploaded == [fileId |-> KeyRank(eid), contentHash |-> "h", lastSyncedAt |-> Now]
        enriched == [policyQuestionsHash |-> "h", policyQuestionsUpdatedAt |-> Now]
    IN {uploaded, enriched, Update(uploaded, enriched)}

\* Ledgers drawn: any set of external ids, each with a drawn entry.
DrawnLedgers ==
    UNION {{l \in [keys -> UNION {DrawnEntries(e) : e \in ExtIds}] :
               \A e \in keys : l[e] \in DrawnEntries(e)} : keys \in SUBSET ExtIds}

\* Listings drawn: files 1..n, each with an external id or none.
DrawnRecords ==
    UNION {{[i \in 1..n |-> [file_id |-> i, external_id |-> eids[i]]] :
               eids \in [1..n -> Docs \cup {None}]} : n \in 0..MaxRecords}

PlanInit ==
    /\ records \in DrawnRecords
    /\ allowed_files \in SUBSET ExtIds
    /\ plan_state \in DrawnLedgers
    /\ plan = [called |-> FALSE, deletions |-> <<>>, state_only_removals |-> <<>>]

\* A call plan_reconciliation(records, allowed_files, state).
PlanReconciliation ==
    /\ ~plan.called
    /\ plan' = plan_reconciliation(records, allowed_files, plan_state)
    /\ UNCHANGED <<records, allowed_files, plan_state>>
    /\ UNCHANGED syncVars
    /\ retryUnchanged /\ pipeUnchanged
    /\ ledgerUnchanged /\ fnUnchanged /\ lockUnchanged

----------------------------------------------------------------------------
(* with_retries, as written in vector_store_upsert.py and again in
   reconcile_vector_store.py *)

\* Values func may return and errors it may raise.
Results == {"r1", "r2"}
Errors == {"e1", "e2"}

RECURSIVE Pow2(_)
Pow2(n) == IF n = 0 THEN 1 ELSE 2 * Pow2(n - 1)

\* backoff_sleep(attempt, base_delay): the argument of time.sleep.
backoff_sleep(n, delay) == delay * Pow2(n)

\* The test of the last attempt, taken one attempt too late.
IsLastAttemptOffByOne(n, max_retries) == n > max_retries

\* The test "attempt >= retries" that ends the loop with a raise.
IsLastAttempt(n, max_retries) == n >= max_retries

\* One pass of the loop "for attempt in range(retries + 1)": func is called;
\* on success its value is returned, on failure the retry event is logged and
\* either the error is raised or the backoff is slept.
Attempt(ok, value) ==
    /\ rstatus = "running"
    /\ attempt <= retries
    /\ outcomes' = Append(outcomes, [ok |-> ok, value |-> value])
    /\ IF ok
       THEN /\ rstatus' = "returned"
            /\ result' = value
            /\ UNCHANGED <<attempt, events, sleeps>>
       ELSE /\ events' = Append(events, [event |-> "operation.retry",
                                         attempt |-> attempt, error |-> value])
            /\ IF IsLastAttempt(attempt, retries)
               THEN /\ rstatus' = "raised"
                    /\ result' = value
                    /\ UNCHANGED <<attempt, sleeps>>
               ELSE /\ sleeps' = Append(sleeps, backoff_sleep(attempt + 1, base_delay))
                    /\ attempt' = attempt + 1
                    /\ UNCHANGED <<rstatus, result>>
    /\ UNCHANGED <<retries, base_delay>>
    /\ UNCHANGED syncVars
    /\ planUnchanged /\ pipeUnchanged
    /\ ledgerUnchanged /\ fnUnchanged /\ lockUnchanged

\* The statement after the loop, raise RuntimeError("unreachable"): reached
\* when range(retries + 1) is used up without a return or a raise.
RaiseUnreachable ==
    /\ rstatus = "running"
    /\ attempt > retries
    /\ rstatus' = "raised"
    /\ result' = "unreachable"
    /\ UNCHANGED <<retries, base_delay, attempt, outcomes, events, sleeps>>
    /\ UNCHANGED syncVars
    /\ planUnchanged /\ pipeUnchanged
    /\ ledgerUnchanged /\ fnUnchanged /\ lockUnchanged

\* --max-retries is any integer (argparse type=int): a negative value makes
\* range(retries + 1) empty.
RetryInit ==
    /\ retries \in (0 - 1)..MaxRetries
    /\ base_delay \in 1..MaxDelay
    /\ attempt = 0
    /\ outcomes = <<>>
    /\ events = <<>>
    /\ sleeps = <<>>
    /\ rstatus = "running"
    /\ result = None

----------------------------------------------------------------------------
(* run_pipeline.py *)

PYTHON_EXEC == "python3"

\* --state-file at its default, as build_steps passes it on.
STATE_FILE == "state/vector_state.json"

\* --retry-base-delay and --lock-timeout of run_pipeline.py at their defaults.
RETRY_BASE_DELAY == 2
LOCK_TIMEOUT == 30

\* add_step: the Step appended to steps.
add_step(a, name, script, extra_args, step_retries, skip, skip_reason) ==
    [name |-> name,
     command |-> <<PYTHON_EXEC, script>> \o extra_args,
     retries |-> step_retries,
     retry_delay |-> a.retry_base_delay,
     skip |-> skip,
     skip_reason |-> skip_reason]

\* The two add_step calls of a local step: run with no retry, or skipped.
LocalStep(a, name, script, flag, skip_reason) ==
    add_step(a, name, script, <<>>, 0, flag, IF flag THEN skip_reason ELSE None)

\* The two add_step calls of a network-bound step: run with args.max_retries
\* retries, or skipped.
NetworkStep(a, name, script, extra_args, flag, skip_reason) ==
    add_step(a, name, script, extra_args, IF flag THEN 0 ELSE a.max_retries,
             flag, IF flag THEN skip_reason ELSE None)

state_arg == <<"--state-file", STATE_FILE>>

\* DryRunArg with the flag never passed on.
DryRunArgDropped(a) == <<>>

\* The "--dry-run" appended to the arguments of a step under args.dry_run.
DryRunArg(a) == IF a.dry_run THEN <<"--dry-run">> ELSE <<>>

\* VectorSteps with the two steps in the other order.
VectorStepsReconcileFirst(a, test_vector_store_id) ==
    <<NetworkStep(a, "vector_store_reconcile", "scripts/reconcile_vector_store.py",
                  <<"--vector-store-id", test_vector_store_id>> \o state_arg \o DryRunArg(a),
                  a.skip_reconcile, "skip_reconcile"),
      NetworkStep(a, "vector_store_upsert", "scripts/vector_store_upsert.py",
                  <<"--vector-store-id", test_vector_store_id>> \o state_arg \o DryRunArg(a),
                  a.skip_upload, "skip_upload")>>

\* The last two steps of build_steps: the upsert, then the reconciliation.
VectorSteps(a, test_vector_store_id) ==
    <<NetworkStep(a, "vector_store_upsert", "scripts/vector_store_upsert.py",
                  <<"--vector-store-id", test_vector_store_id>> \o state_arg \o DryRunArg(a),
                  a.skip_upload, "skip_upload"),
      NetworkStep(a, "vector_store_reconcile", "scripts/reconcile_vector_store.py",
                  <<"--vector-store-id", test_vector_store_id>> \o state_arg \o DryRunArg(a),
                  a.skip_reconcile, "skip_reconcile")>>

\* build_steps
build_steps(a, test_vector_store_id) ==
    <<LocalStep(a, "convert_policies", "scripts/convert_to_json.py",
                a.skip_conversion, "skip_conversion"),
      LocalStep(a, "convert_guides", "scripts/convert_guides_to_json.py",
                a.skip_conversion, "skip_conversion"),
      LocalStep(a, "build_policy_index", "scripts/build_policy_index.py",
                a.skip_index, "skip_index"),
      LocalStep(a, "build_guide_index", "scripts/build_guide_index.py",
                a.skip_index, "skip_index"),
      LocalStep(a, "validate_outputs_initial", "scripts/validate_outputs.py",
                a.skip_validation, "skip_validation"),
      NetworkStep(a, "generate_policy_questions", "scripts/generate_ai_questions.py",
                  state_arg \o DryRunArg(a), a.skip_ai, "skip_ai"),
      NetworkStep(a, "generate_guide_questions", "scripts/generate_guide_ai_questions.py",
                  state_arg \o DryRunArg(a), a.skip_ai, "skip_ai"),
      LocalStep(a, "combine_indexes", "scripts/combine_indexes.py",
                a.skip_index, "skip_index"),
      LocalStep(a, "validate_outputs_final", "scripts/validate_outputs.py",
                a.skip_validation, "skip_validation")>>
    \o VectorSteps(a, test_vector_store_id)

\* The command lines drawn, with TEST_VECTOR_STORE_ID set or not.
PipelineArgs ==
    [dry_run : BOOLEAN, skip_conversion : BOOLEAN, skip_index : BOOLEAN,
     skip_ai : BOOLEAN, skip_validation : BOOLEAN, skip_upload : BOOLEAN,
     skip_reconcile : BOOLEAN, max_retries : (0 - 1)..MaxStepRetries,
     retry_base_delay : {RETRY_BASE_DELAY}, lock_timeout : {0, LOCK_TIMEOUT},
     test_vector_store_id : {None, "vs_test"}]

\* main up to the lock: without TEST_VECTOR_STORE_ID it returns 1 at once.
PipelineMain ==
    /\ ppc = "start"
    /\ IF pargs.test_vector_store_id = None
       THEN /\ ppc' = "done"
            /\ pipeline_exit' = 1
            /\ UNCHANGED steps
       ELSE /\ ppc' = "locking"
            /\ steps' = build_steps(pargs, pargs.test_vector_store_id)
            /\ UNCHANGED pipeline_exit
    /\ UNCHANGED <<pargs, lock_file, step_no, step_attempt, results,
                   overall_status, launched, step_sleeps>>
    /\ UNCHANGED syncVars
    /\ planUnchanged /\ retryUnchanged
    /\ ledgerUnchanged /\ fnUnchanged /\ lockUnchanged

\* PipelineLock.acquire, _try_acquire succeeds: the lock file is created.
LockAcquire ==
    /\ ppc = "locking"
    /\ lock_file = "absent"
    /\ lock_file' = "mine"
    /\ ppc' = "steps"
    /\ step_no' = 1
    /\ step_attempt' = 1
    /\ UNCHANGED <<pargs, steps, results, overall_status, launched, step_sleeps,
                   pipeline_exit>>
    /\ UNCHANGED syncVars
    /\ planUnchanged /\ retryUnchanged
    /\ ledgerUnchanged /\ fnUnchanged /\ lockUnchanged

\* PipelineLock.acquire, the lock file is older than stale_seconds: unlinked.
LockUnlinkStale ==
    /\ ppc = "locking"
    /\ lock_file = "stale"
    /\ lock_file' = "absent"
    /\ UNCHANGED <<pargs, ppc, steps, step_no, step_attempt, results,
                   overall_status, launched, step_sleeps, pipeline_exit>>
    /\ UNCHANGED syncVars
    /\ planUnchanged /\ retryUnchanged
    /\ ledgerUnchanged /\ fnUnchanged /\ lockUnchanged

\* PipelineLock.acquire, the deadline has passed: PipelineLockError, main
\* returns 1.
LockTimeout ==
    /\ ppc = "locking"
    /\ lock_file = "other"
    /\ pargs.lock_timeout > 0
    /\ ppc' = "done"
    /\ pipeline_exit' = 1
    /\ UNCHANGED <<pargs, lock_file, steps, step_no, step_attempt, results,
                   overall_status, launched, step_sleeps>>
    /\ UNCHANGED syncVars
    /\ planUnchanged /\ retryUnchanged
    /\ ledgerUnchanged /\ fnUnchanged /\ lockUnchanged

\* While main waits, the pipeline that holds the lock releases it, or its
\* lock file grows older than stale_seconds.
LockHolderMoves(to) ==
    /\ ppc = "locking"
    /\ lock_file = "other"
    /\ lock_file' = to
    /\ UNCHANGED <<pargs, ppc, steps, step_no, step_attempt, results,
                   overall_status, launched, step_sleeps, pipeline_exit>>
    /\ UNCHANGED syncVars
    /\ planUnchanged /\ retryUnchanged
    /\ ledgerUnchanged /\ fnUnchanged /\ lockUnchanged

\* The step the loop of main is at.
CurrentStep == steps[step_no]

\* Attempts with one attempt too many.
AttemptsOneMore(step) == step.retries + 2

\* attempts of execute_step.
Attempts(step) == step.retries + 1

\* execute_step of a skipped step.
StepSkip ==
    /\ ppc = "steps"
    /\ step_no <= Len(steps)
    /\ CurrentStep.skip
    /\ results' = (CurrentStep.name :> "skipped") @@ results
    /\ step_no' = step_no + 1
    /\ UNCHANGED <<pargs, ppc, lock_file, steps, step_attempt, overall_status,
                   launched, step_sleeps, pipeline_exit>>
    /\ UNCHANGED syncVars
    /\ planUnchanged /\ retryUnchanged
    /\ ledgerUnchanged /\ fnUnchanged /\ lockUnchanged

\* One pass of the loop of execute_step: the command is run; on success
\* the step is done; on failure the last attempt raises, main records the
\* failure, leaves the loop and the lock and returns 1; an earlier attempt
\* sleeps and tries again.
StepAttempt(ok) ==
    /\ ppc = "steps"
    /\ step_no <= Len(steps)
    /\ ~CurrentStep.skip
    /\ step_attempt <= Attempts(CurrentStep)
    /\ launched' = Append(launched, [name |-> CurrentStep.name,
                                     command |-> CurrentStep.command,
                                     attempt |-> step_attempt, ok |-> ok])
    /\ IF ok
       THEN /\ results' = (CurrentStep.name :> "success") @@ results
            /\ step_no' = step_no + 1
            /\ step_attempt' = 1
            /\ UNCHANGED <<ppc, lock_file, overall_status, step_sleeps, pipeline_exit>>
       ELSE IF step_attempt >= Attempts(CurrentStep)
            THEN /\ results' = (CurrentStep.name :> "failed") @@ results
                 /\ overall_status' = "failed"
                 /\ lock_file' = "absent"
                 /\ ppc' = "done"
                 /\ pipeline_exit' = 1
                 /\ UNCHANGED <<step_no, step_attempt, step_sleeps>>
            ELSE /\ step_sleeps' = Append(step_sleeps,
                                          CurrentStep.retry_delay * step_attempt)
                 /\ step_attempt' = step_attempt + 1
                 /\ UNCHANGED <<ppc, lock_file, step_no, results, overall_status,
                                pipeline_exit>>
    /\ UNCHANGED <<pargs, steps>>
    /\ UNCHANGED syncVars
    /\ planUnchanged /\ retryUnchanged
    /\ ledgerUnchanged /\ fnUnchanged /\ lockUnchanged

\* execute_step with attempts = 0 (a negative --max-retries): the loop body
\* never runs and "failed" is returned without an exception.
StepNoAttempt ==
    /\ ppc = "steps"
    /\ step_no <= Len(steps)
    /\ ~CurrentStep.skip
    /\ Attempts(CurrentStep) < 1
    /\ results' = (CurrentStep.name :> "failed") @@ results
    /\ step_no' = step_no + 1
    /\ UNCHANGED <<pargs, ppc, lock_file, steps, step_attempt, overall_status,
                   launched, step_sleeps, pipeline_exit>>
    /\ UNCHANGED syncVars
    /\ planUnchanged /\ retryUnchanged
    /\ ledgerUnchanged /\ fnUnchanged /\ lockUnchanged

\* main after the last step: the lock is released, the status returned.
PipelineFinish ==
    /\ ppc = "steps"
    /\ step_no > Len(steps)
    /\ lock_file' = "absent"
    /\ ppc' = "done"
    /\ pipeline_exit' = IF overall_status = "success" THEN 0 ELSE 1
    /\ UNCHANGED <<pargs, steps, step_no, step_attempt, results, overall_status,
                   launched, step_sleeps>>
    /\ UNCHANGED syncVars
    /\ planUnchanged /\ retryUnchanged
    /\ ledgerUnchanged /\ fnUnchanged /\ lockUnchanged

\* No pipeline run: the variables of run_pipeline.py in the other
\* specifications.
PipeAtRest ==
    /\ pargs = [dry_run |-> FALSE, skip_conversion |-> FALSE, skip_index |-> FALSE,
                skip_ai |-> FALSE, skip_validation |-> FALSE, skip_upload |-> FALSE,
                skip_reconcile |-> FALSE, max_retries |-> 0,
                retry_base_delay |-> RETRY_BASE_DELAY, lock_timeout |-> LOCK_TIMEOUT,
                test_vector_store_id |-> None]
    /\ ppc = "done"
    /\ lock_file = "absent"
    /\ steps = <<>>
    /\ step_no = 1
    /\ step_attempt = 1
    /\ results = <<>>
    /\ overall_status = "success"
    /\ launched = <<>>
    /\ step_sleeps = <<>>
    /\ pipeline_exit = None

\* main is called: any command line, the lock file absent, held by another
\* pipeline, or left behind long ago.
PipelineInit ==
    /\ pargs \in PipelineArgs
    /\ ppc = "start"
    /\ lock_file \in {"absent", "other", "stale"}
    /\ steps = <<>>
    /\ step_no = 1
    /\ step_attempt = 1
    /\ results = <<>>
    /\ overall_status = "success"
    /\ launched = <<>>
    /\ step_sleeps = <<>>
    /\ pipeline_exit = None

----------------------------------------------------------------------------
(* scripts/utils/state.py: the ledger file and the VectorState object *)

\* json.dumps(..., sort_keys=True) orders the keys of every mapping as str
\* does: by code point. The keys that occur, in that order.
JSON_KEY_ORDER ==
    <<"A.json", "B.json", "contentHash", "docs", "documentType",
      "extracted_date", "fileId", "kind", "lastSyncedAt", "name", "note",
      "policyQuestionsHash", "sections", "tags", "title">>

JsonKeyRank(k) == CHOOSE i \in 1..Len(JSON_KEY_ORDER) : JSON_KEY_ORDER[i] = k

\* The keys whose value is a mapping: "docs", the external ids, and the
\* nested metadata field "tags". Every other key holds a string.
MapKeys == {"docs", "tags"} \cup Docs

RECURSIVE SortedKeys(_)
\* sort_keys=True
SortedKeys(S) ==
    IF S = {} THEN <<>>
    ELSE LET m == CHOOSE x \in S : \A y \in S : JsonKeyRank(x) <= JsonKeyRank(y)
         IN <<m>> \o SortedKeys(S \ {m})

\* One token of a JSON text: a brace, a key or a string value.
Tok(t, v) == [t |-> t, v |-> v]

RECURSIVE DumpsItems(_, _)
RECURSIVE DumpsMap(_)
\* json.dumps of the items of a mapping, in the given key order.
DumpsItems(m, keys) ==
    IF keys = <<>> THEN <<>>
    ELSE LET k == Head(keys)
         IN <<Tok("key", k)>>
            \o (IF k \in MapKeys THEN DumpsMap(m[k]) ELSE <<Tok("str", m[k])>>)
            \o DumpsItems(m, Tail(keys))

\* json.dumps(payload, indent=2, sort_keys=True, ensure_ascii=False): the
\* text, as its sequence of tokens.
DumpsMap(m) ==
    <<Tok("{", "")>> \o DumpsItems(m, SortedKeys(DOMAIN m)) \o <<Tok("}", "")>>

RECURSIVE ParseItems(_)
\* json.load from the token after an opening brace: the mapping read up to
\* the matching closing brace, and the tokens that follow it.
ParseItems(toks) ==
    LET h == Head(toks)
    IN IF h.t = "}"
       THEN [val |-> <<>>, rest |-> Tail(toks)]
       ELSE LET nxt == toks[2]
                after == SubSeq(toks, 3, Len(toks))
            IN IF nxt.t = "{"
               THEN LET inner == ParseItems(after)
                        more == ParseItems(inner.rest)
                    IN [val |-> Put(more.val, h.v, inner.val), rest |-> more.rest]
               ELSE LET more == ParseItems(after)
                    IN [val |-> Put(more.val, h.v, nxt.v), rest |-> more.rest]

\* json.load of a complete text.
Loads(text) == ParseItems(Tail(text)).val

\* A file: absent, or present with its text.
NoSuchFile == [exists |-> FALSE, text |-> <<>>]
FileOf(text) == [exists |-> TRUE, text |-> text]

\* VectorState.to_dict
to_dict(state_docs) == [docs |-> state_docs]

\* VectorState._load with the file never read.
VectorStateLoadKeepsDefault(file) == EmptyLedger

\* VectorState._load: {"docs": {}} unless the file exists; then the "docs"
\* of the loaded mapping, or {} when it has none.
VectorStateLoad(file) ==
    IF ~file.exists THEN EmptyLedger
    ELSE LET loaded == Loads(file.text)
         IN IF "docs" \in DOMAIN loaded THEN loaded["docs"] ELSE EmptyLedger

\* "last_synced_at or self._utc_timestamp()"
LastSyncedAt(last_synced_at) == IF last_synced_at = None THEN Now ELSE last_synced_at

\* The largest number of tokens one write call puts in the temporary file.
WriteChunk == 3

\* The largest number of upsert, set_metadata and remove calls in a behaviour.
MaxLedgerOps == 2

\* The arguments drawn for VectorState.upsert and set_metadata.
LedgerFileIds == {"file-1", "file-2"}
LedgerHashes == {"hash-a", "hash-b"}
LedgerTimes == {None, "2024-05-01T00:00:00Z"}
UpsertMetadata ==
    {<<>>, [documentType |-> "Policy", title |-> "t1"], [tags |-> [kind |-> "hr"]]}
SetMetadataFields ==
    {[policyQuestionsHash |-> "hash-a"],
     [policyQuestionsHash |-> "hash-b", note |-> "test"],
     [tags |-> [kind |-> "it"], fileId |-> "file-2"]}

\* The files drawn at the ledger path before the first process: none, "{}",
\* the empty ledger, and a ledger with one entry that holds nested metadata.
InitialLedgerFiles ==
    {NoSuchFile,
     FileOf(DumpsMap(<<>>)),
     FileOf(DumpsMap(to_dict(EmptyLedger))),
     FileOf(DumpsMap(to_dict(
         StateUpsert(EmptyLedger, "A.json", "file-1", "hash-a", "2024-05-01T00:00:00Z",
                     [title |-> "t1", tags |-> [kind |-> "hr"]]))))}

NoCall ==
    [op |-> "none", external_id |-> None, file_id |-> None, content_hash |-> None,
     last_synced_at |-> None, metadata |-> <<>>, before |-> EmptyLedger,
     found |-> NoSuchFile]

ledgerFrame ==
    /\ UNCHANGED syncVars
    /\ planUnchanged /\ retryUnchanged /\ pipeUnchanged /\ fnUnchanged
    /\ lockUnchanged

\* The path written in place: it holds what has been written so far.
PathWrittenInPlace(path_file, written) == FileOf(written)

\* The file at the path while the temporary file is being written: the
\* NamedTemporaryFile is another file of the same directory, the path keeps
\* its content until os.replace.
PathWhileWriting(path_file, written) == path_file

\* _atomic_write_json begins: the payload is serialized and the temporary
\* file created, empty.
BeginAtomicWrite(payload, caller) ==
    /\ ltext' = DumpsMap(payload)
    /\ ltmp' = FileOf(<<>>)
    /\ lfound' = lpath
    /\ lpc' = caller

\* TargetExists with the test always passed.
TargetExistsAlways(file) == TRUE

\* "if target.exists(): return" of ensure_state_file.
TargetExists(file) == file.exists

\* ensure_state_file: nothing to do when the file exists; else the empty
\* ledger is written with _atomic_write_json.
EnsureStateFile ==
    /\ lpc = "closed"
    /\ llast' = [NoCall EXCEPT !.op = "ensure_state_file", !.found = lpath]
    /\ IF TargetExists(lpath)
       THEN /\ lpc' = "construct"
            /\ UNCHANGED <<ltext, ltmp, lfound>>
       ELSE BeginAtomicWrite(to_dict(EmptyLedger), "ensure")
    /\ UNCHANGED <<lpath, ldocs, lops>>
    /\ ledgerFrame

\* handle.write(serialized), one write call of the buffered handle.
WriteTemp ==
    /\ lpc \in {"ensure", "save"}
    /\ ltmp.exists
    /\ Len(ltmp.text) < Len(ltext)
    /\ LET upto == IF Len(ltmp.text) + WriteChunk < Len(ltext)
                   THEN Len(ltmp.text) + WriteChunk ELSE Len(ltext)
       IN /\ ltmp' = FileOf(SubSeq(ltext, 1, upto))
          /\ lpath' = PathWhileWriting(lpath, SubSeq(ltext, 1, upto))
    /\ UNCHANGED <<ltext, lfound, ldocs, lpc, llast, lops>>
    /\ ledgerFrame

\* os.replace(temp_name, path), the file closed: the path now names the
\* temporary file. ensure_state_file returns to the script, which
\* constructs the VectorState next; save returns to its caller.
ReplacePath ==
    /\ lpc \in {"ensure", "save"}
    /\ ltmp.exists
    /\ ltmp.text = ltext
    /\ lpath' = ltmp
    /\ ltmp' = NoSuchFile
    /\ lpc' = IF lpc = "ensure" THEN "construct" ELSE "ready"
    /\ UNCHANGED <<ltext, lfound, ldocs, llast, lops>>
    /\ ledgerFrame

\* VectorState(path), after ensure_state_file as every script calls it.
Construct ==
    /\ lpc = "construct"
    /\ ldocs' = VectorStateLoad(lpath)
    /\ llast' = [llast EXCEPT !.op = "construct"]
    /\ lpc' = "ready"
    /\ UNCHANGED <<lpath, ltmp, ltext, lfound, lops>>
    /\ ledgerFrame

\* VectorState.upsert
LedgerUpsert(external_id, file_id, content_hash, last_synced_at, metadata) ==
    /\ lpc = "ready"
    /\ lops < MaxLedgerOps
    /\ ldocs' = StateUpsert(ldocs, external_id, file_id, content_hash,
                            LastSyncedAt(last_synced_at), metadata)
    /\ llast' = [op |-> "upsert", external_id |-> external_id, file_id |-> file_id,
                 content_hash |-> content_hash, last_synced_at |-> last_synced_at,
                 metadata |-> metadata, before |-> ldocs, found |-> NoSuchFile]
    /\ lops' = lops + 1
    /\ UNCHANGED <<lpath, ltmp, ltext, lfound, lpc>>
    /\ ledgerFrame

\* VectorState.set_metadata
LedgerSetMetadata(external_id, metadata) ==
    /\ lpc = "ready"
    /\ lops < MaxLedgerOps
    /\ ldocs' = StateSetMetadata(ldocs, external_id, metadata)
    /\ llast' = [NoCall EXCEPT !.op = "set_metadata", !.external_id = external_id,
                               !.metadata = metadata, !.before = ldocs]
    /\ lops' = lops + 1
    /\ UNCHANGED <<lpath, ltmp, ltext, lfound, lpc>>
    /\ ledgerFrame

\* VectorState.remove
LedgerRemove(external_id) ==
    /\ lpc = "ready"
    /\ lops < MaxLedgerOps
    /\ ldocs' = StateRemove(ldocs, external_id)
    /\ llast' = [NoCall EXCEPT !.op = "remove", !.external_id = external_id,
                               !.before = ldocs]
    /\ lops' = lops + 1
    /\ UNCHANGED <<lpath, ltmp, ltext, lfound, lpc>>
    /\ ledgerFrame

\* VectorState.save: _atomic_write_json(self.path, self.to_dict()) begins.
LedgerSave ==
    /\ lpc = "ready"
    /\ BeginAtomicWrite(to_dict(ldocs), "save")
    /\ llast' = [NoCall EXCEPT !.op = "save", !.before = ldocs, !.found = lpath]
    /\ UNCHANGED <<lpath, ldocs, lops>>
    /\ ledgerFrame

\* The process ends, or is interrupted wherever it stands: the object is
\* gone; a temporary file it leaves behind keeps its own random name and is
\* no file any later write uses. ltext and lfound stay as the record of the
\* last write begun.
ProcessEnds ==
    /\ lpc # "closed"
    /\ lpc' = "closed"
    /\ ldocs' = EmptyLedger
    /\ ltmp' = NoSuchFile
    /\ llast' = NoCall
    /\ UNCHANGED <<lpath, ltext, lfound, lops>>
    /\ ledgerFrame

\* No ledger process: the variables of the ledger in the other specifications.
LedgerAtRest ==
    /\ lpath = NoSuchFile
    /\ ltmp = NoSuchFile
    /\ ltext = <<>>
    /\ lfound = NoSuchFile
    /\ ldocs = EmptyLedger
    /\ lpc = "closed"
    /\ llast = NoCall
    /\ lops = 0

\* No function under check: its variables in the other specifications.
FnAtRest ==
    /\ fn_args = <<>>
    /\ fn_result = [called |-> FALSE]

LedgerInit ==
    /\ lpath \in InitialLedgerFiles
    /\ ltmp = NoSuchFile
    /\ ltext = <<>>
    /\ lfound = lpath
    /\ ldocs = EmptyLedger
    /\ lpc = "closed"
    /\ llast = NoCall
    /\ lops = 0

----------------------------------------------------------------------------
(* Pure functions applied to drawn arguments *)

fnFrame ==
    /\ UNCHANGED syncVars
    /\ planUnchanged /\ retryUnchanged /\ pipeUnchanged /\ ledgerUnchanged
    /\ lockUnchanged

\* The result variable before the call.
Uncalled == [called |-> FALSE]

\* The combined index records drawn for build_work_items: with a File, with
\* a File and a Document Type, with File null, and without File.
WorkItemRecords ==
    {[File |-> "A.json"], [File |-> "B.json"],
     ("File" :> "B.json") @@ ("Document Type" :> "Guide"),
     [File |-> None], [Document |-> "Untitled"]}

\* The longest documents list drawn.
MaxDocuments == 2

WorkItemDocuments ==
    UNION {[1..n -> WorkItemRecords] : n \in 0..MaxDocuments}

\* The source paths that may exist.
SourcePaths ==
    {resolve_source_path("Policy", "A.json"), resolve_source_path("Policy", "B.json"),
     resolve_source_path("Guide", "B.json")}

\* The ledgers drawn: empty, or with an entry for A.json.
WorkItemStates ==
    {EmptyLedger,
     StateUpsert(EmptyLedger, "A.json", 1, compute_content_hash_from_data(
                     [title |-> "t1", extracted_date |-> "2024-05-01"]), Now, <<>>)}

WorkItemsInit ==
    /\ fn_args \in [documents : WorkItemDocuments, state : WorkItemStates,
                    payloads : {[d \in Docs |-> [title |-> "t1",
                                                 extracted_date |-> "2024-05-01"]]},
                    existing : SUBSET SourcePaths]
    /\ fn_result = Uncalled

\* build_work_items(documents, state) is called.
BuildWorkItems ==
    /\ ~fn_result.called
    /\ fn_result' = [called |-> TRUE,
                     ret |-> BuildWorkItemsCall(fn_args.documents, fn_args.state,
                                                fn_args.payloads, fn_args.existing)]
    /\ UNCHANGED fn_args
    /\ fnFrame

\* A JSON value of any shape: a string, a list of values, or a mapping,
\* kept as its list of <<key, value>> pairs in the order of the dict.
JsonStr(v) == [t |-> "str", v |-> v]
JsonList(items) == [t |-> "list", v |-> items]
JsonMap(pairs) == [t |-> "map", v |-> pairs]

RECURSIVE StripVolatileFields(_, _)
\* _strip_volatile_fields: the volatile keys are dropped from a mapping and
\* its values cleaned in turn; the items of a list are cleaned; any other
\* value is returned as it is.
StripVolatileFields(data, volatile_fields) ==
    CASE data.t = "map" ->
           LET kept == SelectSeq(data.v, LAMBDA p : p[1] \notin volatile_fields)
           IN JsonMap([i \in 1..Len(kept) |->
                          <<kept[i][1], StripVolatileFields(kept[i][2], volatile_fields)>>])
      [] data.t = "list" ->
           JsonList([i \in 1..Len(data.v) |->
                        StripVolatileFields(data.v[i], volatile_fields)])
      [] OTHER -> data

\* StripVolatileFields without the descent: only the keys of the outermost
\* mapping are dropped.
StripOutermostOnly(data, volatile_fields) ==
    IF data.t = "map"
    THEN JsonMap(SelectSeq(data.v, LAMBDA p : p[1] \notin volatile_fields))
    ELSE data

\* The cleaned value canonicalize_json serializes.
Cleaned(data, volatile_fields) == StripVolatileFields(data, volatile_fields)

RECURSIVE PairsSortedByKey(_)
\* sort_keys=True on the pairs of one mapping.
PairsSortedByKey(pairs) ==
    IF pairs = <<>> THEN <<>>
    ELSE LET rest == PairsSortedByKey(Tail(pairs))
             p == Head(pairs)
         IN SelectSeq(rest, LAMBDA x : JsonKeyRank(x[1]) < JsonKeyRank(p[1]))
            \o <<p>>
            \o SelectSeq(rest, LAMBDA x : JsonKeyRank(x[1]) >= JsonKeyRank(p[1]))

RECURSIVE JsonDumps(_)
RECURSIVE JsonDumpsEach(_, _)
\* The texts of the items of a list, or of the sorted pairs of a mapping.
JsonDumpsEach(items, keyed) ==
    IF items = <<>> THEN <<>>
    ELSE (IF keyed
          THEN <<Tok("key", Head(items)[1])>> \o JsonDumps(Head(items)[2])
          ELSE JsonDumps(Head(items)))
         \o JsonDumpsEach(Tail(items), keyed)

\* json.dumps(cleaned, sort_keys=True, ensure_ascii=False,
\* separators=(",", ":")): the text, as its sequence of tokens.
JsonDumps(data) ==
    CASE data.t = "map" ->
           <<Tok("{", "")>> \o JsonDumpsEach(PairsSortedByKey(data.v), TRUE)
           \o <<Tok("}", "")>>
      [] data.t = "list" ->
           <<Tok("[", "")>> \o JsonDumpsEach(data.v, FALSE) \o <<Tok("]", "")>>
      [] OTHER -> <<Tok("str", data.v)>>

\* canonicalize_json on a value of any shape.
CanonicalizeJson(data, volatile_fields) == JsonDumps(Cleaned(data, volatile_fields))

\* compute_content_hash_from_data on a value of any shape: the SHA-256 of
\* the canonical string, named by that string.
ComputeContentHash(data, volatile_fields) ==
    <<"sha256", CanonicalizeJson(data, volatile_fields)>>

\* The mapping with the listed keys in the listed order; a key whose choice
\* is the absent value is left out.
JsonAbsent == [t |-> "absent", v |-> ""]
MapInOrder(order, choice) ==
    LET present == SelectSeq(order, LAMBDA k : choice[k].t # "absent")
    IN JsonMap([i \in 1..Len(present) |-> <<present[i], choice[present[i]]>>])

\* The section mappings drawn: a name, with or without an extracted_date, in
\* both key orders.
SectionPayloads ==
    {JsonMap(<<<<"name", JsonStr("summary")>>>>),
     JsonMap(<<<<"name", JsonStr("scope")>>>>),
     JsonMap(<<<<"name", JsonStr("summary")>>, <<"extracted_date", JsonStr("2023-02-02")>>>>),
     JsonMap(<<<<"extracted_date", JsonStr("2023-06-06")>>, <<"name", JsonStr("summary")>>>>)}

\* The section lists drawn: none, one section, and two sections both ways.
SectionLists ==
    {JsonList(<<>>)}
    \cup {JsonList(<<m>>) : m \in SectionPayloads}
    \cup {JsonList(<<JsonMap(<<<<"name", JsonStr("summary")>>>>),
                     JsonMap(<<<<"name", JsonStr("scope")>>>>)>>),
          JsonList(<<JsonMap(<<<<"name", JsonStr("scope")>>>>),
                     JsonMap(<<<<"name", JsonStr("summary")>>>>)>>)}

\* The document payloads drawn: a title, maybe an extracted_date, maybe
\* sections, the keys in one order or the other.
HashPayloads ==
    {MapInOrder(order, choice) :
        order \in {<<"title", "extracted_date", "sections">>,
                   <<"sections", "extracted_date", "title">>},
        choice \in [title : {JsonStr("Policy"), JsonStr("Guide")},
                    extracted_date : {JsonAbsent, JsonStr("2024-01-01"),
                                      JsonStr("2024-05-05")},
                    sections : {JsonAbsent} \cup SectionLists]}

HashInit ==
    /\ fn_args \in [a : HashPayloads, b : HashPayloads]
    /\ fn_result = Uncalled

\* compute_content_hash_from_data is called on each of the two payloads.
ComputeContentHashes ==
    /\ ~fn_result.called
    /\ fn_result' = [called |-> TRUE,
                     hash_a |-> ComputeContentHash(fn_args.a, DEFAULT_VOLATILE_FIELDS),
                     hash_b |-> ComputeContentHash(fn_args.b, DEFAULT_VOLATILE_FIELDS)]
    /\ UNCHANGED fn_args
    /\ fnFrame

\* The records drawn for the combined index whose hash is taken: two with
\* the File A.json that differ in another field, one with B.json, two
\* without File.
IndexHashRecords ==
    {[File |-> "A.json", Document |-> "A"], [File |-> "A.json", Document |-> "A (2)"],
     [File |-> "B.json", Document |-> "B"],
     [Document |-> "Draft 1"], [Document |-> "Draft 2"]}

\* The longest document list drawn for it.
MaxIndexDocuments == 3

\* A document list, and the same records in another order.
IndexHashInit ==
    /\ \E n \in 0..MaxIndexDocuments :
           \E first \in [1..n -> IndexHashRecords], order \in Permutations(1..n) :
               fn_args = [first |-> first, second |-> [i \in 1..n |-> first[order[i]]]]
    /\ fn_result = Uncalled

\* build_index_work_item is called on the index file with the first list,
\* and again with the second.
BuildIndexWorkItems ==
    /\ ~fn_result.called
    /\ fn_result' = [called |-> TRUE,
                     first |-> build_index_work_item(fn_args.first, EmptyLedger),
                     second |-> build_index_work_item(fn_args.second, EmptyLedger)]
    /\ UNCHANGED fn_args
    /\ fnFrame

----------------------------------------------------------------------------
(* scripts/generate_ai_questions.py and                                    *)
(* client-pipeline/scripts/generate_guide_ai_questions.py: collect_plan    *)

\* The two enrichment scripts.
QuestionScripts == {"policy", "guide"}

\* The ledger field in which each script keeps its enrichment hash.
QuestionsHashField(script) ==
    IF script = "policy" THEN "policyQuestionsHash" ELSE "guideQuestionsHash"

\* entry.get("File", ""), None standing for the empty string.
FileField(entry) ==
    IF "File" \in DOMAIN entry /\ entry["File"] # "" THEN entry["File"] ELSE None

\* entry.get("Document", "Unknown")
DocumentName(entry) ==
    IF "Document" \in DOMAIN entry THEN entry["Document"] ELSE "Unknown"

\* The JSON file of an entry: the policy script turns a .txt name into the
\* .json name, the guide script takes File as it is.
JsonFilename(script, file_field) ==
    IF script = "policy"
    THEN CASE file_field = "A.txt" -> "A.json"
           [] file_field = "B.txt" -> "B.json"
           [] OTHER -> file_field
    ELSE file_field

\* str.lower on the names that occur.
Lower(text) ==
    CASE text = "A.json" -> "a.json" [] text = "A.JSON" -> "a.json"
      [] text = "B.json" -> "b.json" [] text = "A.txt" -> "a.txt"
      [] text = "Policy A" -> "policy a" [] text = "Policy B" -> "policy b"
      [] text = "POLICY B" -> "policy b" [] text = "Unknown" -> "unknown"
      [] OTHER -> text

\* _matches_filters: no filters, or one of the three names, in lower case,
\* is among the filters in lower case.
MatchesFilters(json_filename, file_field, document, filters) ==
    \/ filters = <<>>
    \/ LET lowered == {Lower(filters[i]) : i \in 1..Len(filters)}
       IN \/ Lower(json_filename) \in lowered
          \/ Lower(file_field) \in lowered
          \/ Lower(document) \in lowered

\* A file of JSON_DIR: absent, present with text json.load rejects, or
\* present with a payload.
NoJsonFile == [kind |-> "missing", payload |-> <<>>]
BrokenJsonFile == [kind |-> "broken", payload |-> <<>>]
JsonFile(payload) == [kind |-> "json", payload |-> payload]

\* The file at JSON_DIR / json_filename.
JsonAt(files, json_filename) ==
    IF json_filename \in DOMAIN files THEN files[json_filename] ELSE NoJsonFile

\* previous_hash with the primary content hash read in place of the
\* enrichment hash.
PreviousHashFromContentHash(script, state_entry) ==
    IF "contentHash" \in DOMAIN state_entry THEN {state_entry["contentHash"]} ELSE {}

\* previous_hash = state_entry.get(<script>QuestionsHash) or
\* state_entry.get("questionsHash"), as an Optional: the empty set is None.
PreviousHash(script, state_entry) ==
    IF QuestionsHashField(script) \in DOMAIN state_entry
    THEN {state_entry[QuestionsHashField(script)]}
    ELSE IF "questionsHash" \in DOMAIN state_entry
         THEN {state_entry["questionsHash"]}
         ELSE {}

\* state.get(json_filename) or {}
StateEntryOrEmpty(state, json_filename) ==
    IF json_filename \in DOMAIN state THEN state[json_filename] ELSE <<>>

PlanItem(entry, json_filename, content_hash, action, reason) ==
    [entry |-> entry, json_filename |-> json_filename,
     content_hash |-> content_hash, action |-> action, reason |-> reason]

\* The body of the loop of collect_plan for one entry: the items it appends
\* to the plan, none when the entry is filtered out.
PlanItemsOf(script, entry, state, force, filters, files) ==
    IF FileField(entry) = None
    THEN <<PlanItem(entry, "", {}, "skip", "missing_file")>>
    ELSE LET file_field == FileField(entry)
             json_filename == JsonFilename(script, file_field)
             file == JsonAt(files, json_filename)
             content_hash == compute_content_hash_from_data(file.payload)
             previous_hash == PreviousHash(script, StateEntryOrEmpty(state, json_filename))
         IN IF ~MatchesFilters(json_filename, file_field, DocumentName(entry), filters)
            THEN <<>>
            ELSE IF file.kind = "missing"
            THEN <<PlanItem(entry, json_filename, {}, "skip", "json_not_found")>>
            ELSE IF file.kind = "broken"
            THEN <<PlanItem(entry, json_filename, {}, "skip", "load_error")>>
            ELSE IF ~force /\ previous_hash = {content_hash}
            THEN <<PlanItem(entry, json_filename, {content_hash}, "skip", "unchanged")>>
            ELSE <<PlanItem(entry, json_filename, {content_hash}, "update", None)>>

RECURSIVE collect_plan(_, _, _, _, _, _)
\* collect_plan(documents, state, force=, filters=) of either script.
collect_plan(script, documents, state, force, filters, files) ==
    IF documents = <<>> THEN <<>>
    ELSE PlanItemsOf(script, Head(documents), state, force, filters, files)
         \o collect_plan(script, Tail(documents), state, force, filters, files)

RECURSIVE RecordQuestionsHashes(_, _, _)
\* The loop of main over the plan: for every update item the computed hash
\* and the time are merged into the ledger entry of the JSON file.
RecordQuestionsHashes(script, planned, state) ==
    IF planned = <<>> THEN state
    ELSE LET item == Head(planned)
             stamp == IF script = "policy" THEN "policyQuestionsUpdatedAt"
                      ELSE "guideQuestionsUpdatedAt"
         IN RecordQuestionsHashes(script, Tail(planned),
                IF item.action = "update"
                THEN StateSetMetadata(state, item.json_filename,
                         (QuestionsHashField(script) :>
                              (CHOOSE h \in item.content_hash : TRUE))
                         @@ (stamp :> Now))
                ELSE state)

\* The index entries drawn: two policies, one listed by its .txt name, an
\* entry without File and one whose File is empty.
QuestionEntries ==
    {[Document |-> "Policy A", File |-> "A.json"],
     [Document |-> "Policy A", File |-> "A.txt"],
     [Document |-> "Policy B", File |-> "B.json"],
     [Document |-> "Draft"],
     [File |-> ""]}

\* The longest index drawn.
MaxQuestionEntries == 2

QuestionDocuments ==
    UNION {[1..n -> QuestionEntries] : n \in 0..MaxQuestionEntries}

\* The payloads a JSON file may hold and their hashes.
QuestionPayloads == {[title |-> "t1", extracted_date |-> "2024-05-01"],
                     [title |-> "t2", extracted_date |-> "2024-06-01"]}
QuestionHashes == {compute_content_hash_from_data(p) : p \in QuestionPayloads}

\* The ledger entries drawn for A.json: the sets of fields among the primary
\* hash, the script's enrichment hash and the older questionsHash.
QuestionStateEntries(script) ==
    UNION {[F -> QuestionHashes] :
              F \in SUBSET {"contentHash", QuestionsHashField(script), "questionsHash"}}

\* The ledgers drawn: no entry, an entry for A.json, or one for B.json with
\* the enrichment hash of the first payload.
QuestionStates(script) ==
    LET forB == (QuestionsHashField(script) :>
                    compute_content_hash_from_data([title |-> "t1",
                                                    extracted_date |-> "2024-05-01"]))
    IN {EmptyLedger, StateSetMetadata(EmptyLedger, "B.json", forB)}
       \cup {StateSetMetadata(EmptyLedger, "A.json", e) : e \in QuestionStateEntries(script)}

\* The filters drawn: none, a file name in another case, a document name.
QuestionFilters == {<<>>, <<"A.JSON">>, <<"POLICY B">>}

\* The contents of JSON_DIR drawn.
QuestionFiles ==
    [Docs -> {NoJsonFile, BrokenJsonFile} \cup {JsonFile(p) : p \in QuestionPayloads}]

QuestionPlanInit ==
    /\ \E script \in QuestionScripts :
          fn_args \in [script : {script}, documents : QuestionDocuments,
                       state : QuestionStates(script), force : BOOLEAN,
                       filters : QuestionFilters,
                       files : {f \in QuestionFiles : f["B.json"].kind # "broken"}]
    /\ fn_result = Uncalled

\* collect_plan is called, as main calls it.
CollectPlan ==
    /\ ~fn_result.called
    /\ fn_result' = [called |-> TRUE, stage |-> "planned",
                     plan |-> collect_plan(fn_args.script, fn_args.documents, fn_args.state,
                                           fn_args.force, fn_args.filters, fn_args.files),
                     state |-> fn_args.state, again |-> <<>>]
    /\ UNCHANGED fn_args
    /\ fnFrame

\* The run goes on past the plan: set_metadata records the computed hash of
\* every update item.
RecordHashes ==
    /\ fn_result.called /\ fn_result.stage = "planned"
    /\ \E i \in 1..Len(fn_result.plan) : fn_result.plan[i].action = "update"
    /\ fn_result' = [fn_result EXCEPT
                        !.stage = "recorded",
                        !.state = RecordQuestionsHashes(fn_args.script, fn_result.plan,
                                                        fn_result.state)]
    /\ UNCHANGED fn_args
    /\ fnFrame

\* The next plan, over the same index and files and the ledger as recorded.
CollectPlanAgain ==
    /\ fn_result.called /\ fn_result.stage = "recorded"
    /\ fn_result' = [fn_result EXCEPT
                        !.stage = "replanned",
                        !.again = collect_plan(fn_args.script, fn_args.documents,
                                               fn_result.state, fn_args.force,
                                               fn_args.filters, fn_args.files)]
    /\ UNCHANGED fn_args
    /\ fnFrame

----------------------------------------------------------------------------
(* run_pipeline.py: PipelineLock shared by several pipeline processes *)

\* The pipeline processes that use the same lock path.
Pipelines == {"p1", "p2", "p3"}

\* --stale-lock-seconds: the default, and 0, which turns the removal off.
STALE_LOCK_SECONDS == 3600

\* No file at the lock path.
NoLockFile == [exists |-> FALSE, owner |-> None, old |-> FALSE]

\* The file os.open(path, O_CREAT | O_EXCL | O_WRONLY) creates for a process.
LockFileOf(p) == [exists |-> TRUE, owner |-> p, old |-> FALSE]

\* A lock file left behind by a pipeline that died, older than stale_seconds.
LeftoverLockFile == [exists |-> TRUE, owner |-> None, old |-> TRUE]

lockFrame ==
    /\ UNCHANGED syncVars
    /\ planUnchanged /\ retryUnchanged /\ pipeUnchanged
    /\ ledgerUnchanged /\ fnUnchanged

\* _is_stale: stale_seconds is positive, the file exists and its age is
\* above stale_seconds.
IsStale(file, stale_seconds) ==
    /\ stale_seconds > 0
    /\ file.exists
    /\ file.old

\* acquire, _try_acquire: the file is created if there is none, and the
\* lock is held; otherwise the loop goes on to the staleness test.
LockTryAcquire(p) ==
    /\ lk_pc[p] = "try"
    /\ IF ~lk_file.exists
       THEN /\ lk_file' = LockFileOf(p)
            /\ lk_acquired' = [lk_acquired EXCEPT ![p] = TRUE]
            /\ lk_pc' = [lk_pc EXCEPT ![p] = "held"]
       ELSE /\ lk_pc' = [lk_pc EXCEPT ![p] = "is_stale"]
            /\ UNCHANGED <<lk_file, lk_acquired>>
    /\ UNCHANGED lk_stale_seconds
    /\ lockFrame

\* acquire, the staleness test: a stale file is to be unlinked; if not, the
\* deadline has passed and PipelineLockError is raised, or the process
\* sleeps and tries again.
LockIsStale(p, timed_out) ==
    /\ lk_pc[p] = "is_stale"
    /\ lk_pc' = [lk_pc EXCEPT ![p] =
                    IF IsStale(lk_file, lk_stale_seconds) THEN "unlink"
                    ELSE IF timed_out THEN "error" ELSE "try"]
    /\ UNCHANGED <<lk_file, lk_acquired, lk_stale_seconds>>
    /\ lockFrame

\* acquire, lock_path.unlink(): the file now at the path is removed; when
\* there is none the OSError is caught. Either way the loop goes on.
LockUnlink(p) ==
    /\ lk_pc[p] = "unlink"
    /\ lk_file' = NoLockFile
    /\ lk_pc' = [lk_pc EXCEPT ![p] = "try"]
    /\ UNCHANGED <<lk_acquired, lk_stale_seconds>>
    /\ lockFrame

\* release, at the end of the with block: the file at the path, if any, is
\* unlinked and _acquired is reset.
LockRelease(p) ==
    /\ lk_pc[p] = "held"
    /\ IF lk_acquired[p] /\ lk_file.exists
       THEN /\ lk_file' = NoLockFile
            /\ lk_acquired' = [lk_acquired EXCEPT ![p] = FALSE]
       ELSE UNCHANGED <<lk_file, lk_acquired>>
    /\ lk_pc' = [lk_pc EXCEPT ![p] = "released"]
    /\ UNCHANGED lk_stale_seconds
    /\ lockFrame

\* Time passes: the age of the lock file goes above stale_seconds.
LockFileAges ==
    /\ lk_file.exists /\ ~lk_file.old
    /\ lk_file' = [lk_file EXCEPT !.old = TRUE]
    /\ UNCHANGED <<lk_pc, lk_acquired, lk_stale_seconds>>
    /\ lockFrame

LockAtRest ==
    /\ lk_file = NoLockFile
    /\ lk_pc = [p \in Pipelines |-> "released"]
    /\ lk_acquired = [p \in Pipelines |-> FALSE]
    /\ lk_stale_seconds = 0

\* The pipelines are about to enter `with lock`; the lock path is free or
\* holds the file of a pipeline that died.
LockInit ==
    /\ lk_file \in {NoLockFile, LeftoverLockFile}
    /\ lk_pc = [p \in Pipelines |-> "try"]
    /\ lk_acquired = [p \in Pipelines |-> FALSE]
    /\ lk_stale_seconds \in {0, STALE_LOCK_SECONDS}

----------------------------------------------------------------------------
(* The synchronisation system *)

\* Remote stores found before the first run: files attached by any tool,
\* with or without external_id metadata, possibly several for one id.
InitialRemotes ==
    UNION {[1..n -> {"A.json", None}] : n \in 0..MaxInitRemote}

\* The planner and the executor at rest.
PlanAtRest ==
    /\ records = <<>>
    /\ allowed_files = <<>>
    /\ plan_state = EmptyLedger
    /\ plan = [called |-> FALSE, deletions |-> <<>>, state_only_removals |-> <<>>]

RetryAtRest ==
    /\ retries = 0
    /\ base_delay = 1
    /\ attempt = 0
    /\ outcomes = <<>>
    /\ events = <<>>
    /\ sleeps = <<>>
    /\ rstatus = "returned"
    /\ result = None

SyncAtRest ==
    /\ disk = EmptyLedger
    /\ mem = EmptyLedger
    /\ nextId = MaxInitRemote + 1
    /\ pc = "idle"
    /\ args = [script |-> "none", dry_run |-> FALSE, limit |-> 0,
               include_unknown |-> FALSE, again |-> FALSE,
                vector_store_id |-> None, api_key |-> None]
    /\ actions = [create |-> <<>>, update |-> <<>>, skip |-> <<>>]
    /\ queue = <<>>
    /\ processed = 0
    /\ state_dirty = FALSE
    /\ to_delete = <<>>
    /\ pending = <<>>
    /\ failures = <<>>
    /\ exit_code = 0
    /\ deleted = {}
    /\ logged = <<>>
    /\ trail = <<>>
    /\ runs = 0
    /\ edits = 0
    /\ faults = 0

Init ==
    /\ index \in IndexChoices
    /\ docs = [d \in Docs |-> [title |-> "t1", extracted_date |-> "2024-05-01"]]
    /\ \E eids \in InitialRemotes :
           remote = [i \in 1..Len(eids) |-> [id |-> i, external_id |-> eids[i]]]
    /\ SyncAtRest
    /\ PlanAtRest
    /\ RetryAtRest
    /\ PipeAtRest
    /\ LedgerAtRest
    /\ FnAtRest
    /\ LockAtRest

Next ==
    \/ \E dry_run \in BOOLEAN :
           \E config \in Configurations("upsert", dry_run) :
               \E limit \in (IF dry_run \/ ~Configured(config[1], config[2])
                             THEN {0} ELSE {0, 1}) :
                   UpsertStart(dry_run, limit, config[1], config[2])
    \/ \E delete_ok \in BOOLEAN, upload_ok \in BOOLEAN : UpsertItem(delete_ok, upload_ok)
    \/ UpsertFinish
    \/ \E dry_run \in BOOLEAN, list_ok \in BOOLEAN :
           \E config \in Configurations("reconcile", dry_run) :
               \E include_unknown \in (IF Configured(config[1], config[2])
                                       THEN BOOLEAN ELSE {FALSE}) :
                   ReconcileStart(dry_run, include_unknown, list_ok, config[1], config[2])
    \/ \E delete_ok \in BOOLEAN : ReconcileItem(delete_ok)
    \/ ReconcileFinish
    \/ \E idx \in IndexChoices : EditIndex(idx)
    \/ \E d \in Docs, payload \in Payloads : EditDoc(d, payload)
    \/ \E d \in Docs : GenerateQuestions(d)

Spec == Init /\ [][Next]_vars

\* The documents and the index of the two specifications below stay as drawn.
LocalAtRest ==
    /\ index = <<>>
    /\ docs = [d \in Docs |-> [title |-> "t1", extracted_date |-> "2024-05-01"]]
    /\ remote = <<>>

PlanSpecInit == PlanInit /\ LocalAtRest /\ SyncAtRest /\ RetryAtRest /\ PipeAtRest /\ LedgerAtRest /\ FnAtRest /\ LockAtRest
PlanNext == PlanReconciliation
PlanSpec == PlanSpecInit /\ [][PlanNext]_vars

RetrySpecInit == RetryInit /\ LocalAtRest /\ SyncAtRest /\ PlanAtRest /\ PipeAtRest /\ LedgerAtRest /\ FnAtRest /\ LockAtRest
RetryNext ==
    \/ \E value \in Results : Attempt(TRUE, value)
    \/ \E value \in Errors : Attempt(FALSE, value)
    \/ RaiseUnreachable
RetrySpec == RetrySpecInit /\ [][RetryNext]_vars

PipelineSpecInit == PipelineInit /\ LocalAtRest /\ SyncAtRest /\ PlanAtRest /\ RetryAtRest /\ LedgerAtRest /\ FnAtRest /\ LockAtRest
PipelineNext ==
    \/ PipelineMain
    \/ LockAcquire
    \/ LockUnlinkStale
    \/ LockTimeout
    \/ \E to \in {"absent", "stale"} : LockHolderMoves(to)
    \/ StepSkip
    \/ \E ok \in BOOLEAN : StepAttempt(ok)
    \/ StepNoAttempt
    \/ PipelineFinish
PipelineSpec == PipelineSpecInit /\ [][PipelineNext]_vars

LedgerSpecInit ==
    LedgerInit /\ LocalAtRest /\ SyncAtRest /\ PlanAtRest /\ RetryAtRest /\ PipeAtRest /\ FnAtRest /\ LockAtRest
LedgerNext ==
    \/ EnsureStateFile
    \/ WriteTemp
    \/ ReplacePath
    \/ Construct
    \/ \E external_id \in Docs, file_id \in LedgerFileIds, content_hash \in LedgerHashes,
          last_synced_at \in LedgerTimes, metadata \in UpsertMetadata :
           LedgerUpsert(external_id, file_id, content_hash, last_synced_at, metadata)
    \/ \E external_id \in Docs, metadata \in SetMetadataFields :
           LedgerSetMetadata(external_id, metadata)
    \/ \E external_id \in Docs : LedgerRemove(external_id)
    \/ LedgerSave
    \/ ProcessEnds
LedgerSpec == LedgerSpecInit /\ [][LedgerNext]_vars

WorkItemsSpecInit ==
    WorkItemsInit /\ LocalAtRest /\ SyncAtRest /\ PlanAtRest /\ RetryAtRest /\ PipeAtRest /\ LedgerAtRest /\ LockAtRest
WorkItemsNext == BuildWorkItems
WorkItemsSpec == WorkItemsSpecInit /\ [][WorkItemsNext]_vars

IndexHashSpecInit ==
    IndexHashInit /\ LocalAtRest /\ SyncAtRest /\ PlanAtRest /\ RetryAtRest /\ PipeAtRest /\ LedgerAtRest /\ LockAtRest
IndexHashNext == BuildIndexWorkItems
IndexHashSpec == IndexHashSpecInit /\ [][IndexHashNext]_vars

HashSpecInit ==
    HashInit /\ LocalAtRest /\ SyncAtRest /\ PlanAtRest /\ RetryAtRest /\ PipeAtRest /\ LedgerAtRest /\ LockAtRest
HashNext == ComputeContentHashes
HashSpec == HashSpecInit /\ [][HashNext]_vars

QuestionPlanSpecInit ==
    QuestionPlanInit /\ LocalAtRest /\ SyncAtRest /\ PlanAtRest /\ RetryAtRest /\ PipeAtRest /\ LedgerAtRest /\ LockAtRest
QuestionPlanNext == CollectPlan \/ RecordHashes \/ CollectPlanAgain
QuestionPlanSpec == QuestionPlanSpecInit /\ [][QuestionPlanNext]_vars

LockSpecInit ==
    /\ LockInit /\ LocalAtRest /\ SyncAtRest /\ PlanAtRest /\ RetryAtRest
    /\ PipeAtRest /\ LedgerAtRest /\ FnAtRest
LockNext ==
    \/ \E p \in Pipelines :
           \/ LockTryAcquire(p)
           \/ \E timed_out \in BOOLEAN : LockIsStale(p, timed_out)
           \/ LockUnlink(p)
           \/ LockRelease(p)
    \/ LockFileAges
LockSpec == LockSpecInit /\ [][LockNext]_vars

----------------------------------------------------------------------------
(* Properties of plan_reconciliation, checked under PlanSpec *)

\* The deletions of the plan that carry the given reason.
PlanDeletions(reason) == SelectSeq(plan.deletions, LAMBDA d : d.reason = reason)

\* The positions of records that list the external id eid.
Listed(eid) == {i \in 1..Len(records) : records[i].external_id = eid}

\* C1, as stated: the plan holds no deletion whose external id is in the
\* allow-list, from neither strategy.
C1_NoAllowedIdInPlan ==
    plan.called =>
        \A i \in 1..Len(plan.deletions) :
            plan.deletions[i].external_id \notin allowed_files

\* C1, amended: the ledger-driven strategy schedules no external id of the
\* allow-list; a deletion of an allow-listed id is always a duplicate
\* deletion, and it leaves the first listed file of that id out of the plan.
C1_AllowedIdOnlyAsDuplicate ==
    plan.called =>
        \A i \in 1..Len(plan.deletions) :
            LET d == plan.deletions[i]
            IN d.external_id \in allowed_files =>
                   /\ d.reason = "duplicate_external_id"
                   /\ LET first == CHOOSE j \in Listed(d.external_id) :
                                        \A k \in Listed(d.external_id) : j <= k
                      IN \A k \in 1..Len(plan.deletions) :
                             plan.deletions[k].reason = "duplicate_external_id"
                                 => plan.deletions[k].file_id # records[first].file_id

\* C1, witness: a plan made with an allow-listed id in the ledger and an
\* allow-listed id listed twice; the first is spared, the second scheduled.
C1_Witness ==
    /\ plan.called
    /\ \E e \in allowed_files \cap DOMAIN plan_state :
           \A i \in 1..Len(plan.deletions) : plan.deletions[i].external_id # e
    /\ \E i \in 1..Len(plan.deletions) : plan.deletions[i].external_id \in allowed_files

\* C3: the duplicate deletions are exactly the records listed after another
\* record of the same external id, each with remove_state false; an external
\* id listed k times has k-1 of them and its first record is kept.
C3_LaterCopiesAreDuplicates ==
    plan.called =>
        LET dups == PlanDeletions("duplicate_external_id")
        IN /\ \A i \in 1..Len(dups) :
                  /\ dups[i].remove_state = FALSE
                  /\ dups[i].external_id # None
           /\ {dups[i].file_id : i \in 1..Len(dups)}
                  = {records[i].file_id : i \in
                        {i \in 1..Len(records) :
                            /\ records[i].external_id # None
                            /\ \E j \in 1..(i - 1) :
                                   records[j].external_id = records[i].external_id}}
           /\ \A e \in Docs :
                  Listed(e) # {} =>
                      /\ Len(SelectSeq(dups, LAMBDA d : d.external_id = e))
                             = Cardinality(Listed(e)) - 1
                      /\ LET first == CHOOSE i \in Listed(e) : \A j \in Listed(e) : i <= j
                         IN \A i \in 1..Len(dups) : dups[i].file_id # records[first].file_id

\* C3, witness: a plan for a listing that holds one external id three times.
C3_Witness ==
    /\ plan.called
    /\ \E e \in Docs : Cardinality(Listed(e)) = 3
    /\ Len(PlanDeletions("duplicate_external_id")) = 2

\* C4, as stated: the stale deletions are exactly the ledger ids that are not
\* allowed and carry a file id, each with reason not_in_combined_index and
\* removal from the ledger; an entry without file id gives no deletion.
C4_StaleOnlyWithFileId ==
    plan.called =>
        LET stale == PlanDeletions("not_in_combined_index")
        IN /\ {stale[i].external_id : i \in 1..Len(stale)}
                  = {e \in DOMAIN plan_state :
                        e \notin allowed_files /\ FileIdOf(plan_state[e]) # NoFile}
           /\ \A i \in 1..Len(stale) :
                  /\ stale[i].remove_state = TRUE
                  /\ stale[i].file_id # NoFile

----------------------------------------------------------------------------
(* Properties of the upsert and reconcile runs, checked under Spec *)

\* The plan in actions was computed from the ledger file, the documents and
\* the index as they are now: an upsert run is in its upload loop, or the last
\* thing that happened was a dry upsert run.
PlanIsFresh == args.script = "upsert" /\ (pc = "upsert" \/ args.dry_run)

\* The external ids an upsert run plans: the index file, then the index entries.
PlannedIds == {INDEX_NAME} \cup {index[i].File : i \in 1..Len(index)}

\* The hash build_work_items / build_index_work_item compute for an id now.
CurrentHash(e) ==
    IF e = INDEX_NAME
    THEN compute_content_hash_from_data(
             normalize_combined_index_payload(load_combined_index_payload(index)))
    ELSE compute_content_hash_from_data(docs[e])

\* The external ids of the items of one bucket.
Bucket(name) == {actions[name][i].external_id : i \in 1..Len(actions[name])}

\* The ledger file stores the current hash of e.
LedgerHasHash(e) == e \in DOMAIN disk /\ HashIs(disk[e], CurrentHash(e))

\* C2: every planned item is in exactly one bucket: create without ledger
\* entry, update with an entry whose contentHash is not the computed hash,
\* skip otherwise; and an upload stores the computed hash, so that the same
\* document goes create, then skip, then (content changed) update.
C2_OneBucketPerItem ==
    /\ PlanIsFresh =>
           /\ Len(actions.create) + Len(actions.update) + Len(actions.skip)
                  = Len(index) + 1
           /\ Bucket("create") = {e \in PlannedIds : e \notin DOMAIN disk}
           /\ Bucket("update") = {e \in PlannedIds : e \in DOMAIN disk /\ ~LedgerHasHash(e)}
           /\ Bucket("skip") = {e \in PlannedIds : LedgerHasHash(e)}
    /\ pc = "upsert" =>
           \A e \in DOMAIN mem :
               (e \notin DOMAIN disk \/ mem[e] # disk[e]) => HashIs(mem[e], CurrentHash(e))

\* C2, witness: a fresh plan with a document in update whose ledger entry was
\* written by an earlier upload (it was created, and its content then changed)
\* next to a document in skip.
C2_Witness ==
    /\ PlanIsFresh
    /\ \E e \in Bucket("update") \cap Docs :
           FileIdOf(disk[e]) # NoFile /\ "contentHash" \in DOMAIN disk[e]
    /\ Bucket("skip") \cap Docs # {}

\* C5, as stated: the ledger entry of the combined index file itself is
\* never put in the deletion list of a reconcile run.
C5_IndexFileNeverInToDelete ==
    \A i \in 1..Len(to_delete) : to_delete[i].external_id # INDEX_NAME

\* C6, as stated: without --include-unknown no remote file that lacks an
\* external id is deleted. (The file of the combined index itself, see C5, is
\* left out of the count.)
C6_NoIdlessFileDeletedWithoutOptIn ==
    (args.script = "reconcile" /\ ~args.include_unknown) =>
        \A r \in deleted :
            r.external_id = None =>
                \E i \in 1..Len(to_delete) :
                    to_delete[i].id = r.id /\ to_delete[i].external_id = INDEX_NAME

\* C6, amended: a listed file enters the plan as an unknown only on opt-in;
\* without the opt-in the plan holds only the files named by the fileId of
\* stale ledger entries (uploaded without metadata, these do lack an
\* external id in the listing), and only planned files are deleted.
C6_UnknownsOnlyOnOptIn ==
    args.script = "reconcile" =>
        /\ \A i \in 1..Len(to_delete) :
               /\ to_delete[i].source = "unknown" => args.include_unknown
               /\ ~args.include_unknown =>
                      /\ to_delete[i].source = "state"
                      /\ to_delete[i].external_id \in ExtIds \ AllowedExternalIds(index)
                      /\ pc = "reconcile" =>
                             /\ to_delete[i].external_id \in DOMAIN disk
                             /\ FileIdOf(disk[to_delete[i].external_id]) = to_delete[i].id
        /\ \A r \in deleted : \E i \in 1..Len(to_delete) : to_delete[i].id = r.id

\* C6, witness: a run without opt-in has deleted the id-less file of a stale
\* document and has left an id-less file it does not track in the store.
C6_Witness ==
    /\ args.script = "reconcile" /\ ~args.include_unknown /\ pc = "idle"
    /\ \E r \in deleted : r.external_id = None
    /\ \E i \in 1..Len(to_delete) : to_delete[i].external_id \in Docs
    /\ \E i \in 1..Len(remote) :
           /\ remote[i].external_id = None
           /\ \A e \in DOMAIN disk : FileIdOf(disk[e]) # remote[i].id

\* The last run was a reconcile run without --dry-run that ended with status 0.
ReconcileEndedClean ==
    /\ pc = "idle"
    /\ args.script = "reconcile"
    /\ ~args.dry_run
    /\ exit_code = 0

\* C7, as stated: the run also deletes the second and later listed file of
\* an external id, so after a run whose deletes all succeeded the store holds
\* at most one file per external id.
C7_OneFilePerIdAfterReconcile ==
    ReconcileEndedClean =>
        \A i, j \in 1..Len(remote) :
            (i # j /\ remote[i].external_id = remote[j].external_id)
                => remote[i].external_id = None

\* An upsert run then a reconcile run, neither dry, every remote call of both
\* succeeded and every planned item handled, nothing changed locally since.
CleanUpsertThenReconcile ==
    trail = <<[script |-> "upsert", clean |-> TRUE],
              [script |-> "reconcile", clean |-> TRUE]>>

\* C8, as stated: after such a pair of runs the next upsert run plans no
\* create and no update and the next reconcile run (default options) plans
\* no deletion.
C8_NothingLeftToDo ==
    (CleanUpsertThenReconcile /\ pc = "idle" /\ args.dry_run) =>
        /\ args.script = "upsert" =>
               actions.create = <<>> /\ actions.update = <<>>
        /\ (args.script = "reconcile" /\ ~args.include_unknown) => to_delete = <<>>

\* C9, as stated: a second planning on unchanged items and ledger gives the
\* same buckets, and these are entirely skip.
C9_SecondPlanAllSkip ==
    [][args'.again =>
          /\ actions' = actions
          /\ actions'.create = <<>>
          /\ actions'.update = <<>>]_vars

\* C9, amended: a second planning on unchanged items and ledger gives the
\* same buckets; they are entirely skip exactly when the ledger already
\* stores the computed hash of every planned item, not because it is the
\* second planning.
C9_SecondPlanSameBuckets ==
    [][args'.again =>
          /\ actions' = actions
          /\ (actions'.create = <<>> /\ actions'.update = <<>>)
                 <=> \A e \in PlannedIds : LedgerHasHash(e)]_vars

\* C9, witness: a second planning that again holds a create item, and one
\* document that it skips.
C9_Witness ==
    /\ args.again
    /\ actions.create # <<>>
    /\ Bucket("skip") \cap Docs # {}

----------------------------------------------------------------------------
(* Failures inside a run, checked under Spec *)

\* A run of the script without --dry-run that found its configuration is in
\* its loop or was the last run.
InRun(script) ==
    /\ args.script = script
    /\ ~args.dry_run
    /\ Configured(args.vector_store_id, args.api_key)

\* The planned items the loop has gone through: all but those still left.
Visited(planned, rest) == SubSeq(planned, 1, Len(planned) - Len(rest))

\* The ids of the remote files deleted in the run.
DeletedIds == {r.id : r \in deleted}

\* The entry of to_delete is recorded in the failures of the reconcile run.
FailedDeletion(f) == [externalId |-> f.external_id, fileId |-> f.id] \in Range(failures)

\* C13: a failed item is recorded in failures and the loop goes on: every
\* item the loop has gone through is either recorded as failed or done
\* (uploaded and in the ledger; deleted), the two counts add up to the number
\* of items gone through, and the loop ends only with no item left (or, in an
\* upsert run, at the --limit).
C13_FailureDoesNotEndTheLoop ==
    /\ InRun("upsert") =>
           LET visited == Visited(UpsertQueue(actions), queue)
           IN /\ Len(failures) + processed = Len(visited)
              /\ \A i \in 1..Len(visited) :
                     LET e == visited[i].item.external_id
                     IN \/ e \in Range(failures)
                        \/ /\ e \in DOMAIN mem
                           /\ HashIs(mem[e], visited[i].item.content_hash)
              /\ pc = "idle" => (queue = <<>> \/ LimitReached)
    /\ InRun("reconcile") =>
           LET visited == Visited(to_delete, pending)
           IN /\ Len(failures) + Cardinality(deleted) = Len(visited)
              /\ \A i \in 1..Len(visited) :
                     FailedDeletion(visited[i]) \/ visited[i].id \in DeletedIds
              /\ pc = "idle" => pending = <<>>

\* C13, witness: an upsert run has ended in which one planned item failed
\* and an item planned after it was uploaded.
C13_Witness ==
    /\ InRun("upsert") /\ pc = "idle"
    /\ LET planned == UpsertQueue(actions)
       IN \E i, j \in 1..Len(planned) :
              /\ i < j
              /\ planned[i].item.external_id \in Range(failures)
              /\ planned[j].item.external_id \notin Range(failures)
              /\ planned[j].item.external_id \in DOMAIN disk
              /\ HashIs(disk[planned[j].item.external_id], planned[j].item.content_hash)

\* C14: a run in which an item failed ends with a status other than 0, and a
\* run that ends so has written the ledger as it stands in memory: the
\* entry of every uploaded item, the removal of every entry whose file was
\* deleted.
C14_FailedRunExitsNonZeroAndSaves ==
    (pc = "idle" /\ (InRun("upsert") \/ InRun("reconcile"))) =>
        /\ failures # <<>> => exit_code = 1
        /\ exit_code # 0 =>
               /\ disk = mem
               /\ InRun("upsert") =>
                      LET visited == Visited(UpsertQueue(actions), queue)
                      IN \A i \in 1..Len(visited) :
                             LET e == visited[i].item.external_id
                             IN e \notin Range(failures) =>
                                    /\ e \in DOMAIN disk
                                    /\ HashIs(disk[e], visited[i].item.content_hash)
                                    /\ RemoteHas(FileIdOf(disk[e]))
               /\ InRun("reconcile") =>
                      \A i \in 1..Len(to_delete) :
                          (~FailedDeletion(to_delete[i]) /\ to_delete[i].external_id # None)
                              => /\ to_delete[i].id \in DeletedIds
                                 /\ to_delete[i].external_id \notin DOMAIN disk

\* C14, witness: an upsert run has ended with status 1 after one item failed
\* and another was uploaded; the ledger file holds the uploaded item.
C14_Witness ==
    /\ InRun("upsert") /\ pc = "idle"
    /\ exit_code = 1
    /\ failures # <<>>
    /\ processed >= 1
    /\ \E e \in DOMAIN disk : FileIdOf(disk[e]) = nextId - 1

\* C15, as stated: when an item fails the ledger is saved at that point,
\* before the next item is gone through.
C15_SavedAtTheFailure ==
    [][Len(failures') > Len(failures) => disk' = mem']_vars

\* The position of the entry of a document in the combined index.
IndexPosition(e) == CHOOSE i \in 1..Len(index) : index[i].File = e

\* C16, as stated: the documents of an upsert run that need an upload are
\* gone through in the order of their entries in the combined index.
C16_UploadsInIndexOrder ==
    (args.script = "upsert" /\ pc = "upsert") =>
        LET planned == UpsertQueue(actions)
        IN \A i, j \in 1..Len(planned) :
               (/\ i < j
                /\ planned[i].item.external_id \in Docs
                /\ planned[j].item.external_id \in Docs)
                   => IndexPosition(planned[i].item.external_id)
                          < IndexPosition(planned[j].item.external_id)

----------------------------------------------------------------------------
(* Dry runs, plan events and configuration, checked under Spec *)

\* C18: a step of a run with --dry-run (of either script) sends no upload
\* and no delete (the store, the id counter, the deleted files and the
\* failures show none), never enters the upload or delete loop, and leaves
\* the ledger file as it was, the ledger in memory being that of the file.
C18_DryRunChangesNothing ==
    [][args'.dry_run =>
          /\ pc' = "idle"
          /\ remote' = remote
          /\ nextId' = nextId
          /\ deleted' = {}
          /\ failures' = <<>>
          /\ disk' = disk
          /\ mem' = disk]_vars

\* C18, witness: a dry upsert run has ended with an update in its plan, the
\* ledger holding the file of an earlier upload.
C18_Witness ==
    /\ args.script = "upsert" /\ args.dry_run /\ pc = "idle"
    /\ exit_code = 0
    /\ actions.update # <<>>
    /\ \E e \in DOMAIN disk : FileIdOf(disk[e]) # NoFile
    /\ remote # <<>>

\* C19, as stated: once a run has changed the remote store, every item of
\* its plan has been logged as an event of its own: each create, update and
\* skip item of an upsert run, each planned deletion of a reconcile run.
C19_PlanLoggedBeforeMutation ==
    /\ (args.script = "upsert" /\ (processed > 0 \/ deleted # {})) =>
           \A e \in Range(PlanningItemEvents(actions)) : e \in Range(logged)
    /\ (args.script = "reconcile" /\ deleted # {}) =>
           \A i \in 1..Len(to_delete) :
               /\ i <= Len(logged)
               /\ logged[i].fileId = to_delete[i].id
               /\ logged[i].externalId = to_delete[i].external_id

\* C20: the step of an upsert run without --dry-run, or of any reconcile
\* run, that finds no vector store id or no API key ends the run with
\* status 1; no listing, upload or delete has been sent (no store change,
\* no failed call) and the ledger file is as it was.
C20_MissingConfigurationAborts ==
    [][(/\ args'.script \in {"upsert", "reconcile"}
        /\ args'.script = "reconcile" \/ ~args'.dry_run
        /\ args'.vector_store_id = None \/ args'.api_key = None) =>
          /\ pc' = "idle"
          /\ exit_code' = 1
          /\ remote' = remote
          /\ nextId' = nextId
          /\ faults' = faults
          /\ deleted' = {}
          /\ failures' = <<>>
          /\ disk' = disk
          /\ mem' = disk]_vars

\* C20, witness: an upsert run without --dry-run has ended for want of an
\* API key although its plan held an update and the ledger a file.
C20_Witness ==
    /\ args.script = "upsert" /\ ~args.dry_run /\ pc = "idle"
    /\ args.vector_store_id # None /\ args.api_key = None
    /\ exit_code = 1
    /\ actions.update # <<>>
    /\ \E e \in DOMAIN disk : FileIdOf(disk[e]) # NoFile

\* C21, as stated: after a reconcile run without --dry-run in which every
\* delete succeeded, the saved ledger holds no external id that the combined
\* index does not list.
C21_NoStaleEntryAfterCleanReconcile ==
    ReconcileEndedClean =>
        \A e \in DOMAIN disk : e \in AllowedExternalIds(index)

----------------------------------------------------------------------------
(* The update items of the upsert run and the remote store, checked under Spec *)

\* The ids of a set or sequence of remote records.
IdsOf(recs) == {f.id : f \in recs}

\* The old remote file of the item the upload loop is at: the fileId of its
\* ledger entry, NoFile when there is none.
OldFileId ==
    IF Truthy(Head(queue).item.state_record)
    THEN FileIdOf(CHOOSE e \in Head(queue).item.state_record : TRUE)
    ELSE NoFile

\* The step is a pass of the upload loop over an update item whose ledger
\* entry names a remote file.
UpdateItemStep ==
    /\ pc = "upsert" /\ pc' = "upsert"
    /\ queue # <<>> /\ queue' # queue
    /\ Head(queue).action_name = "update"
    /\ OldFileId # NoFile

\* C35: over an update item, an upload is made only once the old remote file
\* named by the ledger has been deleted; and when the delete failed no
\* upload is made and the ledger entry of the item stays as it was.
C35_DeleteBeforeUpload ==
    [][UpdateItemStep =>
          LET old == OldFileId
              uploaded == nextId' # nextId
              delete_failed == old \notin IdsOf(deleted') \ IdsOf(deleted)
          IN /\ uploaded => (~delete_failed /\ old \notin IdsOf(Range(remote')))
             /\ delete_failed =>
                   /\ ~uploaded
                   /\ remote' = remote
                   /\ mem' = mem
                   /\ failures' = Append(failures, Head(queue).item.external_id)]_vars

\* C35, witness: the run is past an update item whose old remote file is
\* still in the store and still named by its ledger entry: the delete failed
\* and nothing was uploaded in this run.
C35_Witness ==
    /\ pc = "upsert"
    /\ deleted = {}
    /\ \E i \in 1..Len(actions.update) :
          LET e == actions.update[i].external_id
          IN /\ e \in Range(failures)
             /\ e \in DOMAIN mem
             /\ FileIdOf(mem[e]) # NoFile
             /\ RemoteHas(FileIdOf(mem[e]))
             /\ mem = disk

\* Every fileId of a ledger names a file among the given remote ids.
NamesPresentFiles(ledger, ids) ==
    \A e \in DOMAIN ledger : FileIdOf(ledger[e]) # NoFile => FileIdOf(ledger[e]) \in ids

\* C36: if every ledger fileId named a file of the remote store when the
\* upsert run started, then at the end of the run, whatever calls failed,
\* every fileId of the saved ledger names a file of the remote store.
C36_SavedLedgerNamesPresentFiles ==
    [][(/\ pc = "upsert" /\ pc' = "idle"
        /\ NamesPresentFiles(disk, IdsOf(Range(remote)) \cup IdsOf(deleted)))
           => NamesPresentFiles(disk', IdsOf(Range(remote')))]_vars

----------------------------------------------------------------------------
(* The deletions of the reconcile run, checked under Spec *)

\* The remote file ids the ledger file gives to external ids of the index.
TrackedIndexFileIds ==
    {FileIdOf(disk[e]) : e \in DOMAIN disk \cap AllowedExternalIds(index)} \ {NoFile}

\* C37: a reconcile run, with or without --include-unknown, deletes no
\* remote file whose id is the ledger fileId of an external id of the
\* combined index.
C37_TrackedIndexFilesAreKept ==
    pc = "reconcile" => IdsOf(deleted) \cap TrackedIndexFileIds = {}

\* C38: the deletion list of a reconcile run holds each remote file id at
\* most once.
C38_EachFileIdOnce ==
    args.script = "reconcile" =>
        \A i, j \in 1..Len(to_delete) : i # j => to_delete[i].id # to_delete[j].id

\* C39: in the delete loop a ledger entry goes only when the delete of its
\* file has just succeeded, and the other entries keep their fields; after a
\* failed delete the ledger in memory is as it was; and the ledger saved at
\* the end of the run is that ledger, in which the entry of every failed
\* delete still stands with its fields.
C39_EntryRemovedOnlyAfterDelete ==
    [][(pc = "reconcile") =>
          IF pc' = "reconcile"
          THEN /\ \A e \in DOMAIN mem :
                     IF e \in DOMAIN mem'
                     THEN mem'[e] = mem[e]
                     ELSE /\ e = Head(pending).external_id
                          /\ Head(pending).id \in IdsOf(deleted') \ IdsOf(deleted)
                          /\ Head(pending).id \notin IdsOf(Range(remote'))
               /\ failures' # failures => mem' = mem
          ELSE /\ disk' = mem
               /\ \A i \in 1..Len(failures) :
                     (/\ failures[i].externalId # None
                      /\ failures[i].externalId \in DOMAIN disk)
                        => /\ failures[i].externalId \in DOMAIN disk'
                           /\ disk'[failures[i].externalId] = disk[failures[i].externalId]]_vars

\* C39, witness: a reconcile run has ended with a failed delete of the file
\* of a stale ledger entry, and the saved ledger still holds the entry with
\* that fileId.
C39_Witness ==
    /\ pc = "idle" /\ args.script = "reconcile" /\ exit_code = 1
    /\ \E i \in 1..Len(failures) :
          /\ failures[i].externalId # None
          /\ failures[i].externalId \in DOMAIN disk
          /\ FileIdOf(disk[failures[i].externalId]) = failures[i].fileId
          /\ RemoteHas(failures[i].fileId)

----------------------------------------------------------------------------
(* The enrichment fields of the ledger across an upload, checked under Spec *)

\* The ledger fields the question-generation scripts keep.
QuestionFields ==
    {"policyQuestionsHash", "policyQuestionsUpdatedAt", "guideQuestionsHash",
     "guideQuestionsUpdatedAt"}

\* C40: an upload of an external id by the upsert run leaves the
\* question-generation fields of its ledger entry as they were, so that the
\* next question-generation plan still finds the hash it recorded.
C40_UploadKeepsQuestionFields ==
    [][(pc = "upsert" /\ nextId' # nextId) =>
          LET e == Head(queue).item.external_id
          IN e \in DOMAIN mem =>
                \A k \in QuestionFields \cap DOMAIN mem[e] :
                    /\ e \in DOMAIN mem'
                    /\ k \in DOMAIN mem'[e]
                    /\ mem'[e][k] = mem[e][k]]_vars

----------------------------------------------------------------------------
(* Properties of with_retries, checked under RetrySpec *)

\* Every call of func so far has failed.
AllFailed == \A i \in 1..Len(outcomes) : ~outcomes[i].ok

\* C10: func is called at most retries + 1 times; no call follows a
\* successful one and the value of that call is what is returned; when
\* retries + 1 calls have all failed the error of the last one is raised,
\* and one sleep was made after every failed call but the last.
C10_AtMostRetriesPlusOneCalls ==
    /\ Len(outcomes) <= (IF retries < 0 THEN 0 ELSE retries + 1)
    /\ \A i \in 1..(Len(outcomes) - 1) : ~outcomes[i].ok
    /\ rstatus = "returned" =>
           /\ outcomes # <<>>
           /\ outcomes[Len(outcomes)].ok
           /\ result = outcomes[Len(outcomes)].value
           /\ Len(sleeps) = Len(outcomes) - 1
    /\ (AllFailed /\ Len(outcomes) = retries + 1 /\ outcomes # <<>>) =>
           /\ rstatus = "raised"
           /\ result = outcomes[Len(outcomes)].value
           /\ Len(sleeps) = Len(outcomes) - 1
    /\ (rstatus = "raised" /\ retries >= 0) =>
           AllFailed /\ Len(outcomes) = retries + 1
    /\ rstatus = "running" => AllFailed /\ Len(sleeps) = Len(outcomes)

\* C10, witness: three calls failed with two retries allowed; the error of
\* the third was raised after two sleeps.
C10_Witness ==
    /\ rstatus = "raised"
    /\ retries = 2
    /\ Len(outcomes) = 3
    /\ AllFailed
    /\ result = outcomes[3].value
    /\ outcomes[3].value # outcomes[2].value
    /\ Len(sleeps) = 2

\* C11, as stated: the sleep that follows the failure of an attempt lasts
\* base_delay * 2^attempt, attempt being the index logged in the retry event
\* of that failure (0 for the first call).
C11_SleepIsBaseTimesTwoToAttempt ==
    \A i \in 1..Len(sleeps) :
        sleeps[i] = base_delay * Pow2(events[i].attempt)

\* C12, as stated: every call of func, successful or failed, has logged one
\* event that carries its attempt number.
C12_OneEventPerAttempt ==
    /\ Len(events) = Len(outcomes)
    /\ \A i \in 1..Len(events) : events[i].attempt = i - 1

----------------------------------------------------------------------------
(* Properties of run_pipeline.py, checked under PipelineSpec *)

\* The place of the step called name in steps.
PositionOf(name) == CHOOSE i \in 1..Len(steps) : steps[i].name = name

\* The places in launched at which the command of the step called name ran.
LaunchesOf(name) == {i \in 1..Len(launched) : launched[i].name = name}

\* C17: in every pipeline run the upsert step comes before the reconcile
\* step, and the reconcile command is never started unless the upsert step
\* has ended with success or was skipped (and then only after every run of
\* the upsert command).
C17_UpsertBeforeReconcile ==
    steps # <<>> =>
        /\ PositionOf("vector_store_upsert") < PositionOf("vector_store_reconcile")
        /\ LaunchesOf("vector_store_reconcile") # {} =>
              /\ "vector_store_upsert" \in DOMAIN results
              /\ results["vector_store_upsert"] \in {"success", "skipped"}
              /\ \A i \in LaunchesOf("vector_store_upsert") :
                     \A j \in LaunchesOf("vector_store_reconcile") : i < j

\* A finished run in which the upsert command failed once, then succeeded,
\* and the reconcile command ran after it.
C17_Witness ==
    /\ ppc = "done"
    /\ pipeline_exit = 0
    /\ \E i \in LaunchesOf("vector_store_upsert") : ~launched[i].ok
    /\ \E i \in LaunchesOf("vector_store_upsert") : launched[i].ok
    /\ LaunchesOf("vector_store_reconcile") # {}

\* The step names in the order of the pipeline.
StepNames ==
    <<"convert_policies", "convert_guides", "build_policy_index", "build_guide_index",
      "validate_outputs_initial", "generate_policy_questions",
      "generate_guide_questions", "combine_indexes", "validate_outputs_final",
      "vector_store_upsert", "vector_store_reconcile">>

\* The skip flag that owns a step, which is also its skip reason.
SkipFlagOf(name) ==
    CASE name \in {"convert_policies", "convert_guides"} -> "skip_conversion"
      [] name \in {"build_policy_index", "build_guide_index", "combine_indexes"} -> "skip_index"
      [] name \in {"validate_outputs_initial", "validate_outputs_final"} -> "skip_validation"
      [] name \in {"generate_policy_questions", "generate_guide_questions"} -> "skip_ai"
      [] name = "vector_store_upsert" -> "skip_upload"
      [] name = "vector_store_reconcile" -> "skip_reconcile"

\* The steps whose command takes --dry-run.
DryRunSteps ==
    {"generate_policy_questions", "generate_guide_questions", "vector_store_upsert",
     "vector_store_reconcile"}

\* C33: for every combination of flags build_steps returns the same step
\* names in the same order, from convert_policies to vector_store_upsert
\* then vector_store_reconcile; a step is skipped exactly when its own skip
\* flag is set, with that flag as its reason; and --dry-run is in the
\* command of exactly the question, upsert and reconcile steps under
\* dry-run, which skips nothing.
C33_StepsSameForEveryFlag ==
    steps # <<>> =>
        /\ [i \in 1..Len(steps) |-> steps[i].name] = StepNames
        /\ \A i \in 1..Len(steps) :
              /\ steps[i].skip = pargs[SkipFlagOf(steps[i].name)]
              /\ steps[i].skip_reason
                     = IF steps[i].skip THEN SkipFlagOf(steps[i].name) ELSE None
              /\ ("--dry-run" \in Range(steps[i].command))
                     <=> (pargs.dry_run /\ steps[i].name \in DryRunSteps)

\* C33, witness: steps built under dry-run with the question steps skipped
\* and the upsert step not.
C33_Witness ==
    /\ steps # <<>>
    /\ pargs.dry_run /\ pargs.skip_ai /\ ~pargs.skip_upload
    /\ steps[PositionOf("generate_policy_questions")].skip
    /\ "--dry-run" \in Range(steps[PositionOf("generate_policy_questions")].command)
    /\ ~steps[PositionOf("vector_store_upsert")].skip
    /\ "--dry-run" \in Range(steps[PositionOf("vector_store_upsert")].command)

\* The launch at place i of launched was the last attempt of its step and
\* it failed.
FailedLastAttempt(i) ==
    /\ ~launched[i].ok
    /\ launched[i].attempt = steps[PositionOf(launched[i].name)].retries + 1

\* C34: the commands run in the order of the steps; a skipped step runs no
\* command; a step is attempted at most retries + 1 times; and once the last
\* attempt of a step has failed nothing runs after it, no later step has a
\* result, the status is failed, the exit code is not zero and the lock is
\* released.
C34_StepsInOrderUntilFailure ==
    steps # <<>> =>
        /\ \A i, j \in 1..Len(launched) :
              i < j => PositionOf(launched[i].name) <= PositionOf(launched[j].name)
        /\ \A i \in 1..Len(launched) : ~steps[PositionOf(launched[i].name)].skip
        /\ \A k \in 1..Len(steps) :
              Cardinality(LaunchesOf(steps[k].name)) <= steps[k].retries + 1
        /\ \A i \in 1..Len(launched) :
              FailedLastAttempt(i) =>
                  /\ i = Len(launched)
                  /\ \A k \in (PositionOf(launched[i].name) + 1)..Len(steps) :
                         steps[k].name \notin DOMAIN results
                  /\ launched[i].name \in DOMAIN results
                  /\ results[launched[i].name] = "failed"
                  /\ overall_status = "failed"
                  /\ ppc = "done"
                  /\ pipeline_exit # 0
                  /\ lock_file = "absent"

\* C34, witness: a run in which a step was skipped, an earlier step ran, and
\* a later step failed on its second and last attempt.
C34_Witness ==
    /\ ppc = "done"
    /\ \E i \in 1..Len(launched) :
          /\ FailedLastAttempt(i)
          /\ launched[i].attempt = 2
          /\ \E j \in 1..(i - 1) : launched[j].name # launched[i].name
    /\ \E n \in DOMAIN results : results[n] = "skipped"

----------------------------------------------------------------------------
(* Properties of the ledger, checked under LedgerSpec *)

\* C22: every ledger the object reaches by upsert, set_metadata and remove
\* is the ledger a new object loads from the text save writes of it, with
\* the same entries and fields; and when save has returned, a new object
\* constructed on the path would hold what the saving object holds.
C22_LoadOfSaveIsTheLedger ==
    /\ lpc # "closed" =>
           VectorStateLoad(FileOf(DumpsMap(to_dict(ldocs)))) = ldocs
    /\ (lpc = "ready" /\ llast.op = "save") => VectorStateLoad(lpath) = ldocs

\* C22, witness: save has returned, having changed the file, for a ledger of
\* two entries of which one holds nested metadata.
C22_Witness ==
    /\ lpc = "ready" /\ llast.op = "save"
    /\ lpath # lfound
    /\ DOMAIN ldocs = Docs
    /\ \E e \in DOMAIN ldocs : "tags" \in DOMAIN ldocs[e]
    /\ lops = MaxLedgerOps

\* C23: after set_metadata(id, fields) the entry of id holds every supplied
\* field with the supplied value and every other field it held before with
\* its old value, and no further field (only the supplied ones when there
\* was no entry); every other entry is as it was.
C23_SetMetadataMerges ==
    llast.op = "set_metadata" =>
        LET id == llast.external_id
            old == IF id \in DOMAIN llast.before THEN llast.before[id] ELSE <<>>
        IN /\ DOMAIN ldocs = DOMAIN llast.before \cup {id}
           /\ DOMAIN ldocs[id] = DOMAIN old \cup DOMAIN llast.metadata
           /\ \A k \in DOMAIN llast.metadata : ldocs[id][k] = llast.metadata[k]
           /\ \A k \in DOMAIN old \ DOMAIN llast.metadata : ldocs[id][k] = old[k]
           /\ \A e \in DOMAIN llast.before \ {id} : ldocs[e] = llast.before[e]

\* C23, witness: set_metadata on an entry of which it overwrites one field
\* with another value and keeps another field, a second entry being there.
C23_Witness ==
    /\ llast.op = "set_metadata"
    /\ llast.external_id \in DOMAIN llast.before
    /\ \E k \in DOMAIN llast.metadata \cap DOMAIN llast.before[llast.external_id] :
           llast.before[llast.external_id][k] # llast.metadata[k]
    /\ DOMAIN llast.before[llast.external_id] \ DOMAIN llast.metadata # {}
    /\ DOMAIN llast.before \ {llast.external_id} # {}

\* C24: after upsert(id, fileId, contentHash, lastSyncedAt, metadata) the
\* entry of id holds exactly fileId, contentHash, lastSyncedAt (the supplied
\* value, or the current time when none is supplied) and the supplied
\* metadata; no field of an earlier entry is left; every other entry is as
\* it was.
C24_UpsertReplacesTheEntry ==
    llast.op = "upsert" =>
        LET id == llast.external_id
        IN /\ DOMAIN ldocs = DOMAIN llast.before \cup {id}
           /\ DOMAIN ldocs[id] =
                  {"fileId", "contentHash", "lastSyncedAt"} \cup DOMAIN llast.metadata
           /\ ldocs[id]["fileId"] = llast.file_id
           /\ ldocs[id]["contentHash"] = llast.content_hash
           /\ ldocs[id]["lastSyncedAt"] =
                  (IF llast.last_synced_at = None THEN Now ELSE llast.last_synced_at)
           /\ \A k \in DOMAIN llast.metadata : ldocs[id][k] = llast.metadata[k]
           /\ \A e \in DOMAIN llast.before \ {id} : ldocs[e] = llast.before[e]

\* C24, witness: upsert without lastSyncedAt on an entry that held a field
\* the call does not supply, a second entry being there.
C24_Witness ==
    /\ llast.op = "upsert"
    /\ llast.last_synced_at = None
    /\ llast.external_id \in DOMAIN llast.before
    /\ DOMAIN llast.before[llast.external_id]
           \ ({"fileId", "contentHash", "lastSyncedAt"} \cup DOMAIN llast.metadata) # {}
    /\ DOMAIN llast.before \ {llast.external_id} # {}

RECURSIVE OpenBraces(_)
\* The number of mappings a text has opened and not closed.
OpenBraces(text) ==
    IF text = <<>> THEN 0
    ELSE OpenBraces(SubSeq(text, 1, Len(text) - 1))
         + (CASE text[Len(text)].t = "{" -> 1
              [] text[Len(text)].t = "}" -> 0 - 1
              [] OTHER -> 0)

\* A text json.load accepts: one mapping, closed.
CompleteText(text) == text # <<>> /\ OpenBraces(text) = 0

\* C25: whatever step an _atomic_write_json is at, and after an interruption
\* at any step, the file at the ledger path is the complete file found when
\* the write began or the complete new text; it is never a part of a text.
C25_ReaderSeesWholeFile ==
    /\ lpath.exists => CompleteText(lpath.text)
    /\ lpath = lfound \/ lpath = FileOf(ltext)
    /\ lpc \in {"ensure", "save"} => lpath = lfound

\* C25, witness: save is half way through writing a new text, the path
\* holding another, complete text.
C25_Witness ==
    /\ lpc = "save"
    /\ ltmp.exists
    /\ ltmp.text # <<>> /\ Len(ltmp.text) < Len(ltext)
    /\ lpath.exists /\ lpath.text # ltext

----------------------------------------------------------------------------
(* Properties of build_work_items, checked under WorkItemsSpec *)

----------------------------------------------------------------------------
(* Properties of build_index_work_item, checked under IndexHashSpec *)

\* C28, as stated: two index payloads that hold the same records in
\* different order give the combined index item the same content hash, also
\* when records share a File value or have none.
C28_ReorderingKeepsTheIndexHash ==
    fn_result.called => fn_result.first.content_hash = fn_result.second.content_hash

----------------------------------------------------------------------------
(* Properties of compute_content_hash_from_data, checked under HashSpec *)

\* The value under a key of a mapping.
ValueAt(data, key) == (CHOOSE p \in Range(data.v) : p[1] = key)[2]

\* The keys of a mapping that are not volatile.
LastingKeys(data) == {p[1] : p \in Range(data.v)} \ DEFAULT_VOLATILE_FIELDS

RECURSIVE SameButVolatile(_, _)
\* Two values are equal once the volatile fields are taken out of the maps
\* at every depth and the order of the keys of a map is left aside: maps
\* with the same lasting keys and such values under each, lists of the same
\* length with such items place by place, equal strings.
SameButVolatile(a, b) ==
    /\ a.t = b.t
    /\ CASE a.t = "map" ->
              /\ LastingKeys(a) = LastingKeys(b)
              /\ \A k \in LastingKeys(a) : SameButVolatile(ValueAt(a, k), ValueAt(b, k))
         [] a.t = "list" ->
              /\ Len(a.v) = Len(b.v)
              /\ \A i \in 1..Len(a.v) : SameButVolatile(a.v[i], b.v[i])
         [] OTHER -> a.v = b.v

\* C29: the content hashes of two payloads are equal exactly when the
\* payloads are equal after the volatile fields are removed from the maps at
\* every depth (those inside lists too) and map key order is ignored; list
\* order and every other value count.
C29_HashEqualIffSameButVolatile ==
    fn_result.called =>
        ((fn_result.hash_a = fn_result.hash_b) <=> SameButVolatile(fn_args.a, fn_args.b))

\* C29, witness: equal hashes of two payloads whose keys come in different
\* order and whose extracted_date differs at the top and inside a section.
C29_Witness ==
    /\ fn_result.called
    /\ fn_result.hash_a = fn_result.hash_b
    /\ fn_args.a.v[1][1] = "title" /\ fn_args.b.v[1][1] = "sections"
    /\ \E pa \in Range(fn_args.a.v), pb \in Range(fn_args.b.v) :
           /\ pa[1] = "extracted_date" /\ pb[1] = "extracted_date"
           /\ pa[2].v # pb[2].v
    /\ \E pa \in Range(fn_args.a.v), pb \in Range(fn_args.b.v) :
           /\ pa[1] = "sections" /\ pb[1] = "sections"
           /\ Len(pa[2].v) = 1 /\ Len(pb[2].v) = 1
           /\ Len(pa[2].v[1].v) = 2 /\ Len(pb[2].v[1].v) = 2
           /\ pa[2].v[1].v[1][1] # pb[2].v[1].v[1][1]

----------------------------------------------------------------------------
(* Properties of collect_plan, checked under QuestionPlanSpec *)

\* The enrichment hash of the ledger entry of a JSON file is the given hash:
\* the script's own field when the entry has it, questionsHash when not.
EnrichmentHashIs(script, state, json_filename, hash) ==
    /\ json_filename \in DOMAIN state
    /\ LET e == state[json_filename]
           own == QuestionsHashField(script)
       IN \/ own \in DOMAIN e /\ e[own] = hash
          \/ own \notin DOMAIN e /\ "questionsHash" \in DOMAIN e /\ e["questionsHash"] = hash

\* The class of an index entry that passes the filters: action and reason.
ClassOf(script, entry, state, force, files) ==
    IF FileField(entry) = None THEN <<"skip", "missing_file">>
    ELSE LET name == JsonFilename(script, FileField(entry))
             file == JsonAt(files, name)
         IN CASE file.kind = "missing" -> <<"skip", "json_not_found">>
              [] file.kind = "broken" -> <<"skip", "load_error">>
              [] OTHER ->
                   IF /\ ~force
                      /\ EnrichmentHashIs(script, state, name,
                                          compute_content_hash_from_data(file.payload))
                   THEN <<"skip", "unchanged">>
                   ELSE <<"update", None>>

\* An index entry with a File passes the filters.
PassesFilters(script, entry, filters) ==
    /\ FileField(entry) # None
    /\ MatchesFilters(JsonFilename(script, FileField(entry)), FileField(entry),
                      DocumentName(entry), filters)

\* C30: every item of the plan carries the class of its entry (skip for
\* no File, json_not_found, load error, unchanged when force is off and the
\* enrichment hash equals the computed hash, update otherwise), whatever the
\* primary contentHash of the ledger entry is; every entry that passes the
\* filters has an item; and once set_metadata has recorded the computed
\* hashes, the next plan without force skips every document the first plan
\* updated.
C30_PlanClassifiesEntries ==
    fn_result.called =>
        /\ \A i \in 1..Len(fn_result.plan) :
              <<fn_result.plan[i].action, fn_result.plan[i].reason>>
                  = ClassOf(fn_args.script, fn_result.plan[i].entry, fn_args.state,
                            fn_args.force, fn_args.files)
        /\ \A j \in 1..Len(fn_args.documents) :
              PassesFilters(fn_args.script, fn_args.documents[j], fn_args.filters)
                  => \E i \in 1..Len(fn_result.plan) :
                         fn_result.plan[i].entry = fn_args.documents[j]
        /\ (fn_result.stage = "replanned" /\ ~fn_args.force) =>
              /\ Len(fn_result.again) = Len(fn_result.plan)
              /\ \A i \in 1..Len(fn_result.plan) :
                    fn_result.plan[i].action = "update" =>
                        /\ fn_result.again[i].action = "skip"
                        /\ fn_result.again[i].reason = "unchanged"

\* C30, witness: without force and under a filter, a document whose ledger
\* entry holds the computed hash as contentHash only was planned as update,
\* its hash was recorded, and the next plan skipped it as unchanged.
C30_Witness ==
    /\ fn_result.called /\ fn_result.stage = "replanned"
    /\ ~fn_args.force /\ fn_args.filters # <<>>
    /\ \E i \in 1..Len(fn_result.plan) :
          /\ fn_result.plan[i].action = "update"
          /\ fn_result.plan[i].json_filename \in DOMAIN fn_args.state
          /\ DOMAIN fn_args.state[fn_result.plan[i].json_filename] = {"contentHash"}
          /\ {fn_args.state[fn_result.plan[i].json_filename]["contentHash"]}
                 = fn_result.plan[i].content_hash
          /\ fn_result.again[i].reason = "unchanged"

\* An index entry matches one of the filters: its File, its JSON file name
\* or its Document, in lower case, is one of the filters in lower case.
EntryMatchesAFilter(script, entry, filters) ==
    LET lowered == {Lower(filters[i]) : i \in 1..Len(filters)}
    IN \/ Lower(DocumentName(entry)) \in lowered
       \/ /\ FileField(entry) # None
          /\ \/ Lower(FileField(entry)) \in lowered
             \/ Lower(JsonFilename(script, FileField(entry))) \in lowered

\* C31: when filters are supplied, every item of the plan, update or skip,
\* belongs to an index entry that matches one of the filters; an entry that
\* matches none is never in the plan.
C31_PlanHoldsOnlyMatchingEntries ==
    (fn_result.called /\ fn_args.filters # <<>>) =>
        \A i \in 1..Len(fn_result.plan) :
            EntryMatchesAFilter(fn_args.script, fn_result.plan[i].entry, fn_args.filters)

----------------------------------------------------------------------------
(* Properties of PipelineLock, checked under LockSpec *)

\* The pipelines between a successful acquire and their release.
Holders == {p \in Pipelines : lk_pc[p] = "held"}

\* C32: at most one pipeline process is between a successful acquire and
\* its release at any time, with stale-lock removal on or off.
C32_AtMostOneHolder == Cardinality(Holders) <= 1

====
